---- MODULE Spec2Model ----
(***************************************************************************)
(* Storage layer of om-apex-mcp: LocalStorage and GoogleDriveStorage       *)
(* (src/src/om_apex_mcp/storage.py) behind the StorageBackend contract.    *)
(*                                                                         *)
(* A file or folder name is a sequence of its dot-separated parts          *)
(* ("tasks.json" is <<"tasks", "json">>), a relative path is a sequence of *)
(* names ("a/b/f.md" is <<A, B, FMd>>), and the content of a file is a     *)
(* sequence of tokens.  json.dump / json.load are modelled on tokens: a    *)
(* document is written token by token and parsed by recursive descent, so  *)
(* a truncated or non-JSON content fails to parse.                         *)
(***************************************************************************)
EXTENDS Integers, Sequences, FiniteSets, TLC

(***************************************************************************)
(* JSON values, json.dumps and json.loads                                  *)
(***************************************************************************)
StrV(s) == [t |-> "str", s |-> s, items |-> <<>>]
ListV(xs) == [t |-> "list", s |-> "", items |-> xs]
DictV(kvs) == [t |-> "dict", s |-> "", items |-> kvs]

\* The empty mapping {} that the read side returns for "nothing there".
EmptyDict == DictV(<<>>)

\* Tokens: punctuation, string literals, and characters of free text.
P(c) == <<"p", c>>
S(s) == <<"str", s>>
Txt(c) == <<"txt", c>>

\* A stored byte above 0x7F, by its two hex digits; every other token of a
\* stored content is a byte of ASCII, which decodes to itself.
Raw(b) == <<"raw", b>>
IsRaw(tok) == tok[1] = "raw"

\* The two-byte UTF-8 sequences among the bytes, with their characters.
Utf8Two == (<<"C3", "A9">> :> "e-acute") @@ (<<"C3", "BF">> :> "y-diaeresis")

RECURSIVE Utf8Decode(_)
\* bytes.decode("utf-8") / open(encoding="utf-8").read(): the text, or
\* ok = FALSE for UnicodeDecodeError.
Utf8Decode(bytes) ==
    IF bytes = <<>> THEN [ok |-> TRUE, text |-> <<>>]
    ELSE IF ~IsRaw(Head(bytes))
    THEN LET r == Utf8Decode(Tail(bytes))
         IN  [ok |-> r.ok, text |-> IF r.ok THEN <<Head(bytes)>> \o r.text ELSE <<>>]
    ELSE IF Len(bytes) >= 2 /\ IsRaw(bytes[2]) /\ <<bytes[1][2], bytes[2][2]>> \in DOMAIN Utf8Two
    THEN LET r == Utf8Decode(Tail(Tail(bytes)))
         IN  [ok |-> r.ok,
              text |-> IF r.ok THEN <<Txt(Utf8Two[<<bytes[1][2], bytes[2][2]>>])>> \o r.text
                       ELSE <<>>]
    ELSE [ok |-> FALSE, text |-> <<>>]

\* The character latin-1 gives each byte above 0x7F.
Latin1 == ("C3" :> "A-tilde") @@ ("A9" :> "copyright") @@ ("BF" :> "inverted-question")
          @@ ("E9" :> "e-acute") @@ ("FF" :> "y-diaeresis")

\* open(encoding="latin-1").read(): one character for every byte.
Latin1Decode(bytes) ==
    [i \in 1..Len(bytes) |-> IF IsRaw(bytes[i]) THEN Txt(Latin1[bytes[i][2]]) ELSE bytes[i]]

RECURSIVE Dumps(_)
RECURSIVE DumpItems(_, _)
RECURSIVE DumpMembers(_, _)
\* json.dumps(v, indent=2): the token stream of v (whitespace carries no
\* information for the parser and is left out).
Dumps(v) ==
    CASE v.t = "str" -> <<S(v.s)>>
      [] v.t = "list" -> <<P("[")>> \o DumpItems(v.items, 1) \o <<P("]")>>
      [] v.t = "dict" -> <<P("{")>> \o DumpMembers(v.items, 1) \o <<P("}")>>

DumpItems(xs, i) ==
    IF i > Len(xs) THEN <<>>
    ELSE (IF i > 1 THEN <<P(",")>> ELSE <<>>) \o Dumps(xs[i]) \o DumpItems(xs, i + 1)

DumpMembers(kvs, i) ==
    IF i > Len(kvs) THEN <<>>
    ELSE (IF i > 1 THEN <<P(",")>> ELSE <<>>)
         \o <<S(kvs[i][1]), P(":")>> \o Dumps(kvs[i][2]) \o DumpMembers(kvs, i + 1)

ParseFail == [ok |-> FALSE, val |-> EmptyDict, nxt |-> 0]

\* dict semantics of the decoder: a repeated key keeps its first position and
\* takes the last value.
RECURSIVE PutKey(_, _, _, _)
PutKey(kvs, k, v, i) ==
    IF i > Len(kvs) THEN Append(kvs, <<k, v>>)
    ELSE IF kvs[i][1] = k THEN [kvs EXCEPT ![i] = <<k, v>>]
    ELSE PutKey(kvs, k, v, i + 1)

RECURSIVE ParseValue(_, _)
RECURSIVE ParseItems(_, _, _)
RECURSIVE ParseMembers(_, _, _)
\* The decoder at position i of toks: the value starting there and the
\* position after it, or a failure.
ParseValue(toks, i) ==
    IF i > Len(toks) THEN ParseFail
    ELSE IF toks[i][1] = "str" THEN [ok |-> TRUE, val |-> StrV(toks[i][2]), nxt |-> i + 1]
    ELSE IF toks[i] = P("[") THEN
        IF i + 1 <= Len(toks) /\ toks[i + 1] = P("]")
        THEN [ok |-> TRUE, val |-> ListV(<<>>), nxt |-> i + 2]
        ELSE ParseItems(toks, i + 1, <<>>)
    ELSE IF toks[i] = P("{") THEN
        IF i + 1 <= Len(toks) /\ toks[i + 1] = P("}")
        THEN [ok |-> TRUE, val |-> DictV(<<>>), nxt |-> i + 2]
        ELSE ParseMembers(toks, i + 1, <<>>)
    ELSE ParseFail

ParseItems(toks, i, acc) ==
    LET r == ParseValue(toks, i) IN
    IF ~r.ok \/ r.nxt > Len(toks) THEN ParseFail
    ELSE IF toks[r.nxt] = P(",") THEN ParseItems(toks, r.nxt + 1, Append(acc, r.val))
    ELSE IF toks[r.nxt] = P("]")
         THEN [ok |-> TRUE, val |-> ListV(Append(acc, r.val)), nxt |-> r.nxt + 1]
    ELSE ParseFail

ParseMembers(toks, i, acc) ==
    IF i + 1 > Len(toks) \/ toks[i][1] # "str" \/ toks[i + 1] # P(":") THEN ParseFail
    ELSE LET r == ParseValue(toks, i + 2) IN
         IF ~r.ok \/ r.nxt > Len(toks) THEN ParseFail
         ELSE IF toks[r.nxt] = P(",")
              THEN ParseMembers(toks, r.nxt + 1, PutKey(acc, toks[i][2], r.val, 1))
         ELSE IF toks[r.nxt] = P("}")
              THEN [ok |-> TRUE, val |-> DictV(PutKey(acc, toks[i][2], r.val, 1)),
                    nxt |-> r.nxt + 1]
         ELSE ParseFail

\* json.loads(content): the document must span the whole content;
\* anything else raises JSONDecodeError (ok = FALSE).
Loads(toks) ==
    LET r == ParseValue(toks, 1) IN
    IF r.ok /\ r.nxt = Len(toks) + 1 THEN r ELSE ParseFail

(***************************************************************************)
(* Names, paths and contents the operations are called with                *)
(***************************************************************************)
McpData == <<"mcp-data">>
A == <<"a">>
B == <<"b">>
C == <<"c">>
TasksJson == <<"tasks", "json">>
FMd == <<"f", "md">>

\* Path(name).with_suffix("." + ext): the last dot-part is replaced, or the
\* suffix is added to a name that has none.
WithSuffix(name, ext) ==
    IF Len(name) > 1 THEN SubSeq(name, 1, Len(name) - 1) \o <<ext>> ELSE name \o <<ext>>

\* str.rsplit("/", 1) of a relative path: (folder_path, filename).
FolderOf(path) == SubSeq(path, 1, Len(path) - 1)
FileOf(path) == path[Len(path)]

\* data_dir relative to shared_drive_root (shared_drive_root defaults to
\* data_dir.parent; GoogleDriveStorage addresses records as "mcp-data/<name>").
DataDir == <<McpData>>
RecordPath(filename) == DataDir \o <<filename>>

\* Record names the callers use (tools/context.py: "<category>.json").
RecordNames == {TasksJson}

\* Records: JSON mappings with string keys.
Rec0 == EmptyDict
Rec1 == DictV(<< <<"tasks", ListV(<< DictV(<< <<"id", StrV("TASK-1")>> >>) >>)>> >>)
Records == {Rec0, Rec1}

Text1 == <<Txt("x")>>
Text2 == <<Txt("y"), Txt("z")>>
Texts == {Text1, Text2}

\* Blob paths: in an existing nested folder, under a folder that does not
\* exist, under a missing folder whose name repeats an earlier segment, and
\* the path of a record addressed as a blob.
TextPaths == {<<A, B, FMd>>, <<A, B, C, FMd>>, <<A, B, A, FMd>>, RecordPath(TasksJson)}

\* Every prefix of a folder path, shortest first (mkdir(parents=True)).
Prefixes(dir) == {SubSeq(dir, 1, k) : k \in 0..Len(dir)}

(***************************************************************************)
(* Strings: spelling, order, and the patterns of list_files                *)
(***************************************************************************)
Logs == <<"logs">>
Sub == <<"sub">>
Day1 == <<"2026-01-01", "md">>
Day2 == <<"2026-01-02", "md">>
Day3 == <<"2026-01-03", "md">>
FooMdBak == <<"foo", "md", "bak">>
StarMd == <<"*", "md">>

\* The characters of the dot-parts that occur in names.
Chars(part) ==
    CASE part = "2026-01-01" -> <<"2", "0", "2", "6", "-", "0", "1", "-", "0", "1">>
      [] part = "2026-01-02" -> <<"2", "0", "2", "6", "-", "0", "1", "-", "0", "2">>
      [] part = "2026-01-03" -> <<"2", "0", "2", "6", "-", "0", "1", "-", "0", "3">>
      [] part = "mcp-data" -> <<"m", "c", "p", "-", "d", "a", "t", "a">>
      [] part = "renamed" -> <<"r", "e", "n", "a", "m", "e", "d">>
      [] part = "tasks" -> <<"t", "a", "s", "k", "s">>
      [] part = "json" -> <<"j", "s", "o", "n">>
      [] part = "logs" -> <<"l", "o", "g", "s">>
      [] part = "sub" -> <<"s", "u", "b">>
      [] part = "foo" -> <<"f", "o", "o">>
      [] part = "bak" -> <<"b", "a", "k">>
      [] part = "tmp" -> <<"t", "m", "p">>
      [] part = "md" -> <<"m", "d">>
      [] part = "" -> <<>>
      [] OTHER -> <<part>>

\* The characters in the order of their code points, which is the order
\* Python compares str by.
Alphabet ==
    <<"*", "-", ".", "/", "0", "1", "2", "3", "6",
      "a", "b", "c", "d", "e", "f", "g", "j", "k", "l", "m", "n", "o", "p", "r", "s",
      "t", "u">>
Ord(ch) == CHOOSE i \in 1..Len(Alphabet) : Alphabet[i] = ch

RECURSIVE Join(_, _, _)
\* sep.join(parts), spelled out.
Join(parts, spell(_), sep) ==
    IF parts = <<>> THEN <<>>
    ELSE IF Len(parts) = 1 THEN spell(parts[1])
    ELSE spell(parts[1]) \o <<sep>> \o Join(Tail(parts), spell, sep)

\* The str of a name and of a relative path.
NameStr(name) == Join(name, Chars, ".")
PathStr(path) == Join(path, NameStr, "/")

RECURSIVE StrLess(_, _)
\* s < t for two str.
StrLess(s, t) ==
    IF t = <<>> THEN FALSE
    ELSE IF s = <<>> THEN TRUE
    ELSE IF Head(s) = Head(t) THEN StrLess(Tail(s), Tail(t))
    ELSE Ord(Head(s)) < Ord(Head(t))

\* A listing returned in the order it was collected in.
SortedDesc_unsorted(paths) == paths

RECURSIVE SortedDesc(_)
\* sorted(paths, reverse=True)
SortedDesc(paths) ==
    IF paths = <<>> THEN <<>>
    ELSE LET m == CHOOSE k \in 1..Len(paths) :
                    \A j \in 1..Len(paths) : ~StrLess(PathStr(paths[k]), PathStr(paths[j]))
         IN  <<paths[m]>> \o SortedDesc(SubSeq(paths, 1, m - 1) \o SubSeq(paths, m + 1, Len(paths)))

\* s.startswith(t)
StartsWith(s, t) == Len(t) <= Len(s) /\ SubSeq(s, 1, Len(t)) = t
\* s.endswith(t)
EndsWith(s, t) == Len(t) <= Len(s) /\ SubSeq(s, Len(s) - Len(t) + 1, Len(s)) = t
\* t in s
Contains(s, t) == \E i \in 0..(Len(s) - Len(t)) : SubSeq(s, i + 1, i + Len(t)) = t

\* fnmatch of a name against a glob pattern: a leading "*" matches any
\* run of characters, the rest matches itself.
GlobMatch(name, pattern) ==
    IF StartsWith(NameStr(pattern), <<"*">>)
    THEN EndsWith(NameStr(name), Tail(NameStr(pattern)))
    ELSE NameStr(name) = NameStr(pattern)

(***************************************************************************)
(* Results and exceptions of one call                                      *)
(***************************************************************************)
RVoid == [k |-> "void", v |-> <<>>]
RNone == [k |-> "none", v |-> <<>>]
RText(c) == [k |-> "text", v |-> c]
RJson(val) == [k |-> "json", v |-> val]
RBool(b) == [k |-> "bool", v |-> b]
RList(xs) == [k |-> "list", v |-> xs]

NoExc == "none"

VARIABLES
    backend,      \* the backend selected at startup: "local" or "drive"
    lfiles,       \* local filesystem: path -> content, for the files that exist
    ldirs,        \* local filesystem: the directories that exist
    objs,         \* the shared drive: object id -> object
    fileCache,    \* GoogleDriveStorage._file_id_cache
    folderCache,  \* GoogleDriveStorage._folder_id_cache
    last,         \* the last completed call: operation, arguments, outcome
    steps,        \* calls made so far
    wr,           \* concurrent save_json calls: position, arguments
    rd,           \* a concurrent load_json call: position, open file, result
    prior,        \* what the record held before the concurrent save began
    saved,        \* the last successful save_json that nothing has written over
    helpers       \* tools/helpers.py: the global _backend, and the backends constructed

vars ==
    <<backend, lfiles, ldirs, objs, fileCache, folderCache, last, steps, wr, rd, prior, saved,
      helpers>>

(***************************************************************************)
(* LocalStorage                                                            *)
(***************************************************************************)
\* An injected I/O failure: the exception and the stage at which it is
\* raised; for stage "write", after k tokens reached the file.
NoFault == [exc |-> NoExc, at |-> "none", k |-> 0]
LocalExcs == {"PermissionError", "OSError"}

LFs(files, dirs) == [files |-> files, dirs |-> dirs]

\* A mkdir that creates the last level only.
LMkdirParents_last(fs, dir) == [fs EXCEPT !.dirs = @ \cup {dir}]

\* The filesystem after Path.mkdir(parents=True, exist_ok=True).
LMkdirParents(fs, dir) == [fs EXCEPT !.dirs = @ \cup Prefixes(dir)]

\* open(path, "w"): the file exists and is empty.
LOpenW(fs, path) ==
    [fs EXCEPT !.files = (path :> <<>>) @@ @]

\* An append mode that empties the file.
LOpenA_truncating(fs, path) == [fs EXCEPT !.files = (path :> <<>>) @@ @]

\* open(path, "a"): the file exists, its content is kept.
LOpenA(fs, path) ==
    IF path \in DOMAIN fs.files THEN fs ELSE [fs EXCEPT !.files = (path :> <<>>) @@ @]

\* f.write of the tokens toks at the end of the file.
LWrite(fs, path, toks) ==
    [fs EXCEPT !.files = (path :> (fs.files[path] \o toks)) @@ @]

\* The byte a hole in a file reads as.
Nul == P("NUL")

\* f.write(toks) through a handle whose position is pos: the file is
\* overwritten from there on, and padded up to there if it is shorter.
LWriteAt(fs, path, pos, toks) ==
    LET c == fs.files[path]
        c1 == IF Len(c) < pos THEN c \o [k \in 1..(pos - Len(c)) |-> Nul] \o toks
              ELSE SubSeq(c, 1, pos) \o toks \o SubSeq(c, pos + Len(toks) + 1, Len(c))
    IN  [fs EXCEPT !.files = (path :> c1) @@ @]

\* A rename that never happens: the document stays in the temporary file.
LReplace_skipped(fs, src, dst) == fs

\* Path.replace(dst): an atomic rename over the destination.
LReplace(fs, src, dst) ==
    IF src = dst THEN fs
    ELSE [fs EXCEPT !.files =
            [p \in (DOMAIN fs.files \ {src}) \cup {dst} |->
                IF p = dst THEN fs.files[src] ELSE fs.files[p]]]

LOut(fs, exc, ret) == [fs |-> fs, exc |-> exc, ret |-> ret]

\* A writer that logs the failed write and returns normally.
LWriteOrFail_swallowed(fs, path, toks, fault) ==
    IF fault.at = "write"
    THEN LOut(LWrite(fs, path, SubSeq(toks, 1, fault.k)), NoExc, RVoid)
    ELSE LOut(LWrite(fs, path, toks), NoExc, RVoid)

\* The body shared by the three local writers once the target is opened:
\* write toks, stopping after fault.k tokens when the write fails.
LWriteOrFail(fs, path, toks, fault) ==
    IF fault.at = "write"
    THEN LOut(LWrite(fs, path, SubSeq(toks, 1, fault.k)), fault.exc, RVoid)
    ELSE LOut(LWrite(fs, path, toks), NoExc, RVoid)

\* save_json with the document written straight into the destination.
temp_path_in_place(filepath) == filepath

\* temp_path = filepath.with_suffix(".tmp")
temp_path(filepath) == FolderOf(filepath) \o <<WithSuffix(FileOf(filepath), "tmp")>>

\* LocalStorage.save_json(filename, data)
LocalStorage_save_json(fs, filename, data, fault) ==
    LET filepath == RecordPath(filename)
        temp == temp_path(filepath)
        toks == Dumps(data)
    IN  IF fault.at = "mkdir" THEN LOut(fs, fault.exc, RVoid)
        ELSE LET fs1 == LMkdirParents(fs, FolderOf(filepath)) IN
        IF fault.at = "open" THEN LOut(fs1, fault.exc, RVoid)
        ELSE LET w == LWriteOrFail(LOpenW(fs1, temp), temp, toks, fault) IN
        IF w.exc # NoExc THEN w
        ELSE IF fault.at = "replace" THEN LOut(w.fs, fault.exc, RVoid)
        ELSE LOut(LReplace(w.fs, temp, filepath), NoExc, RVoid)

\* LocalStorage.load_json(filename)
LocalStorage_load_json(fs, filename, fault) ==
    LET filepath == RecordPath(filename) IN
    IF fault.at # "none" THEN LOut(fs, NoExc, RJson(EmptyDict))
    ELSE IF filepath \in DOMAIN fs.files
         THEN LET r == Loads(fs.files[filepath]) IN
              LOut(fs, NoExc, RJson(IF r.ok THEN r.val ELSE EmptyDict))
         ELSE LOut(fs, NoExc, RJson(EmptyDict))

\* LocalStorage.read_text(path)
LocalStorage_read_text(fs, path, fault) ==
    IF fault.at = "read" THEN LOut(fs, NoExc, RNone)
    ELSE IF path \notin DOMAIN fs.files THEN LOut(fs, NoExc, RNone)
    ELSE LET d == Utf8Decode(fs.files[path]) IN
         IF d.ok THEN LOut(fs, NoExc, RText(d.text))
         ELSE IF fault.at = "reopen" THEN LOut(fs, NoExc, RNone)
         ELSE LOut(fs, NoExc, RText(Latin1Decode(fs.files[path])))

\* LocalStorage.write_text(path, content)
LocalStorage_write_text(fs, path, content, fault) ==
    IF fault.at = "mkdir" THEN LOut(fs, fault.exc, RVoid)
    ELSE LET fs1 == LMkdirParents(fs, FolderOf(path)) IN
    IF fault.at = "open" THEN LOut(fs1, fault.exc, RVoid)
    ELSE LWriteOrFail(LOpenW(fs1, path), path, content, fault)

\* LocalStorage.append_text(path, content)
LocalStorage_append_text(fs, path, content, fault) ==
    IF fault.at = "mkdir" THEN LOut(fs, fault.exc, RVoid)
    ELSE LET fs1 == LMkdirParents(fs, FolderOf(path)) IN
    IF fault.at = "open" THEN LOut(fs1, fault.exc, RVoid)
    ELSE LWriteOrFail(LOpenA(fs1, path), path, content, fault)

\* LocalStorage.file_exists(path): Path.exists() is true of files and of
\* directories.
LocalStorage_file_exists(fs, path, fault) ==
    IF fault.at # "none" THEN LOut(fs, NoExc, RBool(FALSE))
    ELSE LOut(fs, NoExc, RBool(path \in DOMAIN fs.files \/ path \in fs.dirs))

\* The children of a directory: the files and directories directly in it.
LChildren(fs, dir) ==
    {p \in DOMAIN fs.files \cup fs.dirs : Len(p) = Len(dir) + 1 /\ SubSeq(p, 1, Len(dir)) = dir}

RECURSIVE SeqOf(_)
\* The elements of a set in some order (the order glob yields them in).
SeqOf(set) ==
    IF set = {} THEN <<>>
    ELSE LET x == CHOOSE x \in set : TRUE IN <<x>> \o SeqOf(set \ {x})

\* LocalStorage.list_files(directory, pattern)
LocalStorage_list_files(fs, directory, pattern, fault) ==
    IF fault.at # "none" THEN LOut(fs, NoExc, RList(<<>>))
    ELSE IF directory \notin fs.dirs /\ directory \notin DOMAIN fs.files
    THEN LOut(fs, NoExc, RList(<<>>))
    ELSE IF directory \notin fs.dirs THEN LOut(fs, NoExc, RList(<<>>))
    ELSE LOut(fs, NoExc,
              RList(SortedDesc(SeqOf({p \in LChildren(fs, directory) :
                                        GlobMatch(FileOf(p), pattern)}))))

(***************************************************************************)
(* The shared drive behind the Drive API                                   *)
(***************************************************************************)
\* shared_drive_id, the parent of the top-level folders.
RootId == 0
\* "no id": None of _resolve_file_id.
NoId == 0

Folder(name, parent) ==
    [kind |-> "folder", name |-> name, parent |-> parent, content |-> <<>>, live |-> TRUE]
File(name, parent, content) ==
    [kind |-> "file", name |-> name, parent |-> parent, content |-> content, live |-> TRUE]

\* The state one call threads through its steps: the drive, the two caches,
\* the API calls issued so far, the number of API calls that still succeed
\* before the transport fails, and the outcome.
DSt(o, fc, dc, budget) ==
    [objs |-> o, fc |-> fc, dc |-> dc, calls |-> <<>>, budget |-> budget,
     faulted |-> FALSE, exc |-> NoExc, missing |-> <<>>, id |-> NoId,
     found |-> {}, ret |-> RVoid]

Call(api, id, name) == [api |-> api, id |-> id, name |-> name]

\* The value of a one-element set.  {F(x) : x \in {e}} evaluates e once and
\* hands its value to F, which is how an intermediate result is passed on.
Eval(set) == CHOOSE y \in set : TRUE

\* One request to the API: logged, and failed when the transport fails.
Issue(st, call) ==
    IF st.budget = 0
    THEN [st EXCEPT !.calls = Append(@, call), !.exc = "HttpError", !.faulted = TRUE]
    ELSE [st EXCEPT !.calls = Append(@, call), !.budget = @ - 1]

\* files().list(q = "name = .. and parent in parents [and mimeType = folder]
\* and trashed = false"): the ids found.
ApiList(st, name, parent, foldersOnly) ==
    Eval({ IF s1.exc # NoExc THEN s1
           ELSE [s1 EXCEPT !.found =
                   {i \in 1..Len(s1.objs) :
                       /\ s1.objs[i].live
                       /\ s1.objs[i].name = name
                       /\ s1.objs[i].parent = parent
                       /\ (foldersOnly => s1.objs[i].kind = "folder")}]
           : s1 \in {Issue(st, Call("list", parent, name))} })

\* files[0] of a listing.
First(ids) == CHOOSE i \in ids : \A j \in ids : i <= j

\* The id names a file that is there.
LiveFile(o, id) == id \in 1..Len(o) /\ o[id].live /\ o[id].kind = "file"

\* files().get_media(fileId): the content, or 404 for an id that is gone.
ApiGetMedia(st, id) ==
    Eval({ IF s1.exc # NoExc THEN s1
           ELSE IF LiveFile(s1.objs, id)
                THEN [s1 EXCEPT !.ret = RText(s1.objs[id].content)]
                ELSE [s1 EXCEPT !.exc = "HttpError"]
           : s1 \in {Issue(st, Call("get_media", id, <<>>))} })

\* files().update(fileId, media_body)
ApiUpdate(st, id, content) ==
    Eval({ IF s1.exc # NoExc THEN s1
           ELSE IF LiveFile(s1.objs, id)
                THEN [s1 EXCEPT !.objs[id].content = content, !.id = id]
                ELSE [s1 EXCEPT !.exc = "HttpError"]
           : s1 \in {Issue(st, Call("update", id, <<>>))} })

\* files().create(body = {name, parents: [parent]}, media_body)
ApiCreate(st, name, parent, content) ==
    Eval({ IF s1.exc # NoExc THEN s1
           ELSE IF parent = RootId
                   \/ (parent \in 1..Len(s1.objs) /\ s1.objs[parent].live
                       /\ s1.objs[parent].kind = "folder")
                THEN [s1 EXCEPT !.objs = Append(@, File(name, parent, content)),
                                !.id = Len(s1.objs) + 1]
                ELSE [s1 EXCEPT !.exc = "HttpError"]
           : s1 \in {Issue(st, Call("create", parent, name))} })

(***************************************************************************)
(* GoogleDriveStorage                                                      *)
(***************************************************************************)
\* parts.index(part): the position of the first occurrence.
Index(parts, part) ==
    CHOOSE i \in 1..Len(parts) : parts[i] = part /\ \A j \in 1..(i - 1) : parts[j] # part

\* The loop of _resolve_folder_id at its k-th part.
RECURSIVE ResolveWalk(_, _, _, _)
ResolveWalk(st, parts, k, parent) ==
    IF k > Len(parts) THEN [st EXCEPT !.id = parent]
    ELSE LET part == parts[k]
             current == SubSeq(parts, 1, Index(parts, part))
         IN  IF current \in DOMAIN st.dc
             THEN ResolveWalk(st, parts, k + 1, st.dc[current])
             ELSE Eval({ IF l.exc # NoExc THEN l
                         ELSE IF l.found = {}
                         THEN [l EXCEPT !.exc = "FileNotFoundError", !.missing = part]
                         ELSE ResolveWalk([l EXCEPT !.dc = (current :> First(l.found)) @@ @],
                                          parts, k + 1, First(l.found))
                         : l \in {ApiList(st, part, parent, TRUE)} })

\* _resolve_folder_id that walks the path and remembers nothing.
resolve_folder_id_uncached(st, folder) ==
    IF folder = <<>> THEN [st EXCEPT !.id = RootId]
    ELSE [ResolveWalk(st, folder, 1, RootId) EXCEPT !.dc = st.dc]

\* GoogleDriveStorage._resolve_folder_id(folder_path)
resolve_folder_id(st, folder) ==
    IF folder = <<>> THEN [st EXCEPT !.id = RootId]
    ELSE IF folder \in DOMAIN st.dc THEN [st EXCEPT !.id = st.dc[folder]]
    ELSE ResolveWalk(st, folder, 1, RootId)

\* The query of _resolve_file_id in the folder that f resolved.
FileQuery(f, path) ==
    Eval({ IF l.exc # NoExc THEN l
           ELSE IF l.found = {} THEN [l EXCEPT !.id = NoId]
           ELSE [l EXCEPT !.fc = (path :> First(l.found)) @@ @, !.id = First(l.found)]
           : l \in {ApiList(f, FileOf(path), f.id, FALSE)} })

\* _resolve_file_id that drops a cached id whose object is gone.
resolve_file_id_evicting(st, path) ==
    IF path \in DOMAIN st.fc /\ ~LiveFile(st.objs, st.fc[path])
    THEN [st EXCEPT !.fc = [q \in DOMAIN st.fc \ {path} |-> st.fc[q]], !.id = NoId]
    ELSE IF path \in DOMAIN st.fc THEN [st EXCEPT !.id = st.fc[path]]
    ELSE Eval({ IF f.exc = "FileNotFoundError"
                THEN [f EXCEPT !.exc = NoExc, !.missing = <<>>, !.id = NoId]
                ELSE IF f.exc # NoExc THEN f
                ELSE FileQuery(f, path)
                : f \in {resolve_folder_id(st, FolderOf(path))} })

\* _resolve_file_id that looks the path up whatever the cache holds.
resolve_file_id_relooking(st, path) ==
    Eval({ IF f.exc = "FileNotFoundError"
           THEN [f EXCEPT !.exc = NoExc, !.missing = <<>>, !.id = NoId]
           ELSE IF f.exc # NoExc THEN f
           ELSE FileQuery(f, path)
           : f \in {resolve_folder_id(st, FolderOf(path))} })

\* _resolve_file_id that answers from the cache alone and never looks a
\* path up.
resolve_file_id_cache_only(st, path) ==
    IF path \in DOMAIN st.fc THEN [st EXCEPT !.id = st.fc[path]]
    ELSE [st EXCEPT !.id = NoId]

\* GoogleDriveStorage._resolve_file_id(path)
resolve_file_id(st, path) ==
    IF path \in DOMAIN st.fc THEN [st EXCEPT !.id = st.fc[path]]
    ELSE Eval({ IF f.exc = "FileNotFoundError"
                THEN [f EXCEPT !.exc = NoExc, !.missing = <<>>, !.id = NoId]
                ELSE IF f.exc # NoExc THEN f
                ELSE FileQuery(f, path)
                : f \in {resolve_folder_id(st, FolderOf(path))} })

\* GoogleDriveStorage._download_content(file_id)
download_content(st, id) ==
    Eval({ IF g.exc # NoExc THEN g
           ELSE Eval({ IF d.ok THEN [g EXCEPT !.ret = RText(d.text)]
                       ELSE [g EXCEPT !.exc = "UnicodeDecodeError", !.ret = RVoid]
                       : d \in {Utf8Decode(g.ret.v)} })
           : g \in {ApiGetMedia(st, id)} })

\* The create branch that creates the file and does not remember its id.
CreateFile_forgotten(f, path, content) == ApiCreate(f, FileOf(path), f.id, content)

\* The create branch of _upload_content once the parent folder resolved.
CreateFile(f, path, content) ==
    Eval({ IF c.exc # NoExc THEN c ELSE [c EXCEPT !.fc = (path :> c.id) @@ @]
           : c \in {ApiCreate(f, FileOf(path), f.id, content)} })

\* _upload_content that updates the file it finds and creates none.
upload_content_update_only(st, path, content) ==
    Eval({ IF r.exc # NoExc THEN r
           ELSE IF r.id # NoId THEN ApiUpdate(r, r.id, content)
           ELSE r
           : r \in {resolve_file_id(st, path)} })

\* GoogleDriveStorage._upload_content(path, content)
upload_content(st, path, content) ==
    Eval({ IF r.exc # NoExc THEN r
           ELSE IF r.id # NoId THEN ApiUpdate(r, r.id, content)
           ELSE Eval({ IF f.exc # NoExc THEN f ELSE CreateFile(f, path, content)
                       : f \in {resolve_folder_id(r, FolderOf(path))} })
           : r \in {resolve_file_id(st, path)} })

\* json.loads of the downloaded content d.
DecodeJson(d) ==
    IF d.exc # NoExc THEN d
    ELSE Eval({ IF j.ok THEN [d EXCEPT !.ret = RJson(j.val)]
                ELSE [d EXCEPT !.exc = "JSONDecodeError", !.ret = RVoid]
                : j \in {Loads(d.ret.v)} })

\* GoogleDriveStorage.load_json(filename)
GoogleDriveStorage_load_json(st, filename) ==
    Eval({ IF r.exc # NoExc THEN r
           ELSE IF r.id = NoId THEN [r EXCEPT !.ret = RJson(EmptyDict)]
           ELSE Eval({ DecodeJson(d) : d \in {download_content(r, r.id)} })
           : r \in {resolve_file_id(st, RecordPath(filename))} })

\* GoogleDriveStorage.save_json(filename, data)
GoogleDriveStorage_save_json(st, filename, data) ==
    [upload_content(st, RecordPath(filename), Dumps(data)) EXCEPT !.ret = RVoid]

\* read_text that creates an empty file where it finds none.
GoogleDriveStorage_read_text_creating(st, path) ==
    Eval({ IF r.exc # NoExc THEN r
           ELSE IF r.id = NoId THEN [upload_content(r, path, <<>>) EXCEPT !.ret = RNone]
           ELSE download_content(r, r.id)
           : r \in {resolve_file_id(st, path)} })

\* GoogleDriveStorage.read_text(path)
GoogleDriveStorage_read_text(st, path) ==
    Eval({ IF r.exc # NoExc THEN r
           ELSE IF r.id = NoId THEN [r EXCEPT !.ret = RNone]
           ELSE download_content(r, r.id)
           : r \in {resolve_file_id(st, path)} })

\* GoogleDriveStorage.write_text(path, content)
GoogleDriveStorage_write_text(st, path, content) ==
    [upload_content(st, path, content) EXCEPT !.ret = RVoid]

\* An append that uploads the new content alone.
AppendedContent_overwrite(existing, content) == content

\* if existing: content = existing + content ("if existing:" is false of
\* None and of the empty string).
AppendedContent(existing, content) ==
    IF existing.k = "text" /\ existing.v # <<>> THEN existing.v \o content ELSE content

\* GoogleDriveStorage.append_text(path, content)
GoogleDriveStorage_append_text(st, path, content) ==
    Eval({ IF e.exc # NoExc THEN e
           ELSE [upload_content(e, path, AppendedContent(e.ret, content))
                 EXCEPT !.ret = RVoid]
           : e \in {GoogleDriveStorage_read_text(st, path)} })

\* GoogleDriveStorage.file_exists(path)
GoogleDriveStorage_file_exists(st, path) ==
    Eval({ IF r.exc # NoExc THEN r ELSE [r EXCEPT !.ret = RBool(r.id # NoId)]
           : r \in {resolve_file_id(st, path)} })

\* suffix = pattern[1:] if pattern.startswith("*"), else "".
SuffixOf(pattern) ==
    IF StartsWith(NameStr(pattern), <<"*">>) THEN Tail(NameStr(pattern)) ELSE <<>>

\* The ids that files().list(q = "'<parent>' in parents and trashed = false
\* [and name contains '<suffix>']") finds, in the order of the ids.
ChildrenQuery(o, parent, suffix) ==
    SelectSeq([i \in 1..Len(o) |-> i],
              LAMBDA i : /\ o[i].live /\ o[i].parent = parent
                         /\ (suffix = <<>> \/ Contains(NameStr(o[i].name), suffix)))

\* Children a listing request returns at once (pageSize of the API).
PageSize == 2

RECURSIVE CachePage(_, _, _, _)
\* self._file_id_cache[rel_path] = f["id"] for every f of a page.
CachePage(fc, directory, o, ids) ==
    IF ids = <<>> THEN fc
    ELSE CachePage((directory \o <<o[Head(ids)].name>> :> Head(ids)) @@ fc,
                   directory, o, Tail(ids))

\* A page whose results are the bare names of the children.
PageResults_names(directory, o, ids, suffix) ==
    LET kept == SelectSeq(ids, LAMBDA i : suffix = <<>> \/ EndsWith(NameStr(o[i].name), suffix))
    IN  [k \in 1..Len(kept) |-> <<o[kept[k]].name>>]

\* A page all of whose children are appended, whatever their names end in.
PageResults_unfiltered(directory, o, ids, suffix) ==
    [k \in 1..Len(ids) |-> directory \o <<o[ids[k]].name>>]

\* The rel_path of the children of a page that are appended to results.
PageResults(directory, o, ids, suffix) ==
    LET kept == SelectSeq(ids, LAMBDA i : suffix = <<>> \/ EndsWith(NameStr(o[i].name), suffix))
    IN  [k \in 1..Len(kept) |-> directory \o <<o[kept[k]].name>>]

\* A loop that ignores nextPageToken: the first page only.
ListPages_first_page(f, directory, suffix, token, results) ==
    Eval({ IF s1.exc # NoExc THEN s1
           ELSE Eval({ [s1 EXCEPT !.fc = CachePage(@, directory, s1.objs, page),
                                  !.ret = RList(SortedDesc(PageResults(directory, s1.objs,
                                                                       page, suffix)))]
                       : page \in {SubSeq(ChildrenQuery(s1.objs, f.id, suffix), 1,
                                          IF PageSize < Len(ChildrenQuery(s1.objs, f.id, suffix))
                                          THEN PageSize
                                          ELSE Len(ChildrenQuery(s1.objs, f.id, suffix)))} })
           : s1 \in {Issue(f, Call("list", f.id, <<>>))} })

RECURSIVE ListPages(_, _, _, _, _)
\* The while loop of list_files: one request per page, from the page that
\* begins after the first `token` children.
ListPages(f, directory, suffix, token, results) ==
    Eval({ IF s1.exc # NoExc THEN s1
           ELSE Eval({ Eval({ IF token + PageSize < Len(all)
                              THEN ListPages([s1 EXCEPT !.fc = CachePage(@, directory, s1.objs, page)],
                                             directory, suffix, token + PageSize,
                                             results \o PageResults(directory, s1.objs, page, suffix))
                              ELSE [s1 EXCEPT !.fc = CachePage(@, directory, s1.objs, page),
                                              !.ret = RList(SortedDesc(
                                                  results \o PageResults(directory, s1.objs,
                                                                         page, suffix)))]
                              : page \in {SubSeq(all, token + 1,
                                                 IF token + PageSize < Len(all)
                                                 THEN token + PageSize ELSE Len(all))} })
                       : all \in {ChildrenQuery(s1.objs, f.id, suffix)} })
           : s1 \in {Issue(f, Call("list", f.id, <<>>))} })

\* GoogleDriveStorage.list_files(directory, pattern)
GoogleDriveStorage_list_files(st, directory, pattern) ==
    Eval({ IF f.exc = "FileNotFoundError"
           THEN [f EXCEPT !.exc = NoExc, !.missing = <<>>, !.ret = RList(<<>>)]
           ELSE IF f.exc # NoExc THEN f
           ELSE ListPages(f, directory, SuffixOf(pattern), 0, <<>>)
           : f \in {resolve_folder_id(st, directory)} })

(***************************************************************************)
(* Calls: one storage operation runs to completion before the next begins  *)
(***************************************************************************)
\* Calls in one behaviour.
MaxSteps == 3
\* API calls of one operation that succeed before the transport fails; an
\* operation issues at most MaxCalls requests, so MaxCalls is "no failure".
MaxCalls == 5
Budgets == 0..MaxCalls

LocalReadFaults ==
    {NoFault} \cup {[exc |-> e, at |-> "read", k |-> 0] : e \in LocalExcs}
LocalWriteFaults(toks, stages) ==
    {NoFault}
    \cup {[exc |-> e, at |-> a, k |-> 0] : e \in LocalExcs, a \in stages}
    \cup {[exc |-> "OSError", at |-> "write", k |-> k] : k \in 0..(Len(toks) - 1)}

InitialDirs == {<<>>, DataDir, <<A>>, <<A, B>>}
DriveWithData == <<Folder(A, RootId), Folder(B, 1), Folder(McpData, RootId)>>
DriveNoData == <<Folder(A, RootId), Folder(B, 1)>>

\* The concurrent callers of the interleaving model, at rest.
Writers == {1, 2}
Absent == [ex |-> FALSE, c |-> <<>>]
Present(c) == [ex |-> TRUE, c |-> c]
WIdle == [pc |-> "idle", name |-> <<>>, data |-> EmptyDict, pos |-> 0, hpath |-> <<>>]
RIdle == [pc |-> "idle", name |-> <<>>, hpath |-> <<>>, h |-> <<>>, fresh |-> FALSE,
          seen |-> Absent, ret |-> RVoid]

NoSaved == [ok |-> FALSE, path |-> <<>>, data |-> EmptyDict]

\* tools/helpers.py: _backend = None.  A backend is known by its number in
\* the sequence of the backends constructed in the process; lazy holds those
\* that get_backend constructed.
NoBackend == 0
NotStarted == [backend |-> NoBackend, insts |-> <<>>, inited |-> FALSE, lazy |-> {}]
\* The globals after create_server(b): init_storage(b) has set _backend = b.
Started(kind) == [backend |-> 1, insts |-> <<kind>>, inited |-> TRUE, lazy |-> {}]

NoCall == [op |-> "init", path |-> <<>>, data |-> <<>>, exc |-> NoExc, missing |-> <<>>,
           ret |-> RVoid, calls |-> <<>>, faulted |-> FALSE, id |-> NoId]

Init ==
    /\ backend \in {"local", "drive"}
    /\ lfiles = <<>>
    /\ ldirs = IF backend = "local" THEN InitialDirs ELSE {}
    /\ objs \in IF backend = "drive" THEN {DriveWithData, DriveNoData} ELSE {<<>>}
    /\ fileCache = <<>>
    /\ folderCache = <<>>
    /\ last = NoCall
    /\ steps = 0
    /\ wr = [w \in Writers |-> WIdle]
    /\ rd = RIdle
    /\ prior = Absent
    /\ saved = NoSaved
    /\ helpers = Started(backend)

\* The record of the last successful save_json after a call of op on path:
\* a successful save_json replaces it, any other write operation on its path
\* ends it, and a failed save_json or a read leaves it.
SavedAfter(op, path, data, exc) ==
    IF op = "save_json" /\ exc = NoExc THEN [ok |-> TRUE, path |-> path, data |-> data]
    ELSE IF op \in {"write_text", "append_text"} /\ path = saved.path THEN NoSaved
    ELSE saved

\* A call on LocalStorage with outcome out.
LocalCall(op, path, data, fault, out) ==
    /\ lfiles' = out.fs.files
    /\ ldirs' = out.fs.dirs
    /\ last' = [op |-> op, path |-> path, data |-> data, exc |-> out.exc,
                missing |-> <<>>, ret |-> out.ret, calls |-> <<>>,
                faulted |-> (fault.at # "none"), id |-> NoId]
    /\ steps' = steps + 1
    /\ saved' = SavedAfter(op, path, data, out.exc)
    /\ UNCHANGED <<backend, helpers, objs, fileCache, folderCache, wr, rd, prior>>

\* A call on GoogleDriveStorage with outcome out.
DriveCall(op, path, data, out) ==
    /\ objs' = out.objs
    /\ fileCache' = out.fc
    /\ folderCache' = out.dc
    /\ last' = [op |-> op, path |-> path, data |-> data, exc |-> out.exc,
                missing |-> out.missing, ret |-> out.ret, calls |-> out.calls,
                faulted |-> out.faulted, id |-> out.id]
    /\ steps' = steps + 1
    /\ saved' = SavedAfter(op, path, data, out.exc)
    /\ UNCHANGED <<backend, helpers, lfiles, ldirs, wr, rd, prior>>

LocalReady == backend = "local" /\ steps < MaxSteps
DriveReady == backend = "drive" /\ steps < MaxSteps
LNow == LFs(lfiles, ldirs)
DNow(budget) == DSt(objs, fileCache, folderCache, budget)

LocalSaveJson ==
    /\ LocalReady
    /\ \E n \in RecordNames, r \in Records :
         \E fault \in LocalWriteFaults(Dumps(r), {"mkdir", "open", "replace"}) :
            \E out \in {LocalStorage_save_json(LNow, n, r, fault)} :
              LocalCall("save_json", RecordPath(n), r, fault, out)

LocalLoadJson ==
    /\ LocalReady
    /\ \E n \in RecordNames, fault \in LocalReadFaults :
         \E out \in {LocalStorage_load_json(LNow, n, fault)} :
              LocalCall("load_json", RecordPath(n), <<>>, fault, out)

LocalReadText ==
    /\ LocalReady
    /\ \E p \in TextPaths, fault \in LocalReadFaults :
         \E out \in {LocalStorage_read_text(LNow, p, fault)} :
              LocalCall("read_text", p, <<>>, fault, out)

LocalWriteText ==
    /\ LocalReady
    /\ \E p \in TextPaths, c \in Texts :
         \E fault \in LocalWriteFaults(c, {"mkdir", "open"}) :
            \E out \in {LocalStorage_write_text(LNow, p, c, fault)} :
              LocalCall("write_text", p, c, fault, out)

LocalAppendText ==
    /\ LocalReady
    /\ \E p \in TextPaths, c \in Texts :
         \E fault \in LocalWriteFaults(c, {"mkdir", "open"}) :
            \E out \in {LocalStorage_append_text(LNow, p, c, fault)} :
              LocalCall("append_text", p, c, fault, out)

LocalFileExists ==
    /\ LocalReady
    /\ \E p \in TextPaths, fault \in LocalReadFaults :
         \E out \in {LocalStorage_file_exists(LNow, p, fault)} :
              LocalCall("file_exists", p, <<>>, fault, out)

DriveSaveJson ==
    /\ DriveReady
    /\ \E n \in RecordNames, r \in Records, b \in Budgets :
         \E out \in {GoogleDriveStorage_save_json(DNow(b), n, r)} :
              DriveCall("save_json", RecordPath(n), r, out)

DriveLoadJson ==
    /\ DriveReady
    /\ \E n \in RecordNames, b \in Budgets :
         \E out \in {GoogleDriveStorage_load_json(DNow(b), n)} :
              DriveCall("load_json", RecordPath(n), <<>>, out)

DriveReadText ==
    /\ DriveReady
    /\ \E p \in TextPaths, b \in Budgets :
         \E out \in {GoogleDriveStorage_read_text(DNow(b), p)} :
              DriveCall("read_text", p, <<>>, out)

DriveWriteText ==
    /\ DriveReady
    /\ \E p \in TextPaths, c \in Texts, b \in Budgets :
         \E out \in {GoogleDriveStorage_write_text(DNow(b), p, c)} :
              DriveCall("write_text", p, c, out)

DriveAppendText ==
    /\ DriveReady
    /\ \E p \in TextPaths, c \in Texts, b \in Budgets :
         \E out \in {GoogleDriveStorage_append_text(DNow(b), p, c)} :
              DriveCall("append_text", p, c, out)

DriveFileExists ==
    /\ DriveReady
    /\ \E p \in TextPaths, b \in Budgets :
         \E out \in {GoogleDriveStorage_file_exists(DNow(b), p)} :
              DriveCall("file_exists", p, <<>>, out)

\* Directories and patterns list_files is called with.
ListDirs == {<<Logs>>, <<A, B>>}
Patterns == {StarMd}

LocalListFiles ==
    /\ LocalReady
    /\ \E d \in ListDirs, g \in Patterns, fault \in LocalReadFaults :
         \E out \in {LocalStorage_list_files(LNow, d, g, fault)} :
              LocalCall("list_files", d, g, fault, out)

DriveListFiles ==
    /\ DriveReady
    /\ \E d \in ListDirs, g \in Patterns, b \in Budgets :
         \E out \in {GoogleDriveStorage_list_files(DNow(b), d, g)} :
              DriveCall("list_files", d, g, out)

\* A direct call of _resolve_folder_id, as list_files makes it.
FolderPaths == {<<A, B>>, <<A, B, C>>, <<A, B, A>>}
DriveResolveFolder ==
    /\ DriveReady
    /\ \E d \in FolderPaths, b \in Budgets :
         \E out \in {resolve_folder_id(DNow(b), d)} :
              DriveCall("resolve_folder_id", d, <<>>, out)

\* Another user of the shared drive deletes a file, or renames it away.
Renamed == <<"renamed", "md">>
ExternalChange(op, i, o) ==
    /\ DriveReady
    /\ objs[i].kind = "file" /\ objs[i].live
    /\ objs' = [objs EXCEPT ![i] = o]
    /\ last' = [NoCall EXCEPT !.op = op, !.id = i]
    /\ steps' = steps + 1
    /\ saved' = IF saved.ok /\ saved.path \in DOMAIN fileCache /\ fileCache[saved.path] = i
              THEN NoSaved ELSE saved
    /\ UNCHANGED <<backend, helpers, lfiles, ldirs, fileCache, folderCache, wr, rd, prior>>

ExternalDelete ==
    \E i \in 1..Len(objs) : ExternalChange("external_delete", i, [objs[i] EXCEPT !.live = FALSE])

ExternalRename ==
    \E i \in 1..Len(objs) : ExternalChange("external_rename", i, [objs[i] EXCEPT !.name = Renamed])

LocalNext ==
    \/ LocalSaveJson \/ LocalLoadJson \/ LocalReadText \/ LocalWriteText
    \/ LocalAppendText \/ LocalFileExists \/ LocalListFiles

DriveNext ==
    \/ DriveSaveJson \/ DriveLoadJson \/ DriveReadText \/ DriveWriteText
    \/ DriveAppendText \/ DriveFileExists \/ DriveListFiles \/ DriveResolveFolder
    \/ ExternalDelete \/ ExternalRename

Next == LocalNext \/ DriveNext

\* Either backend, one call at a time.
Spec == Init /\ [][Next]_vars

\* The remote backend alone.
InitDrive == Init /\ backend = "drive"
SpecDrive == InitDrive /\ [][DriveNext]_vars

(***************************************************************************)
(* LocalStorage.save_json and load_json step by step, interleaved          *)
(***************************************************************************)
\* What an open file handle sees after another process changed the
\* filesystem: a handle follows its inode, which a truncation or a write
\* through the same path changes in place and a rename leaves alone.
HandleAfterOpenW(r, path) ==
    IF r.pc = "read" /\ r.fresh /\ r.hpath = path THEN [r EXCEPT !.h = <<>>] ELSE r
HandleAfterWrite(r, path, content) ==
    IF r.pc = "read" /\ r.fresh /\ r.hpath = path THEN [r EXCEPT !.h = content] ELSE r
HandleAfterReplace(r, src, dst) ==
    IF r.pc # "read" \/ ~r.fresh \/ src = dst THEN r
    ELSE IF r.hpath = dst THEN [r EXCEPT !.fresh = FALSE]
    ELSE IF r.hpath = src THEN [r EXCEPT !.hpath = dst]
    ELSE r

\* The handle of a writer whose file has no name any more.
Unlinked == <<>>
\* The handles the writers hold open after a rename by one of them.
WritersAfterReplace(ws, src, dst) ==
    [w \in DOMAIN ws |->
        IF ws[w].pc # "write" \/ src = dst THEN ws[w]
        ELSE IF ws[w].hpath = dst THEN [ws[w] EXCEPT !.hpath = Unlinked]
        ELSE IF ws[w].hpath = src THEN [ws[w] EXCEPT !.hpath = dst]
        ELSE ws[w]]

ConcRecords == Records \cup {DictV(<< <<"tasks", ListV(<<>>)>> >>)}

\* Before the concurrent calls: the record is absent or holds a complete
\* document, and an earlier interrupted save may have left a temporary file.
InitConc ==
    /\ backend = "local"
    /\ ldirs = InitialDirs
    /\ \E n \in RecordNames :
         \E old \in {Absent} \cup {Present(Dumps(r)) : r \in ConcRecords},
            tmp \in {Absent, Present(<<P("{")>>)} :
            /\ prior = old
            /\ lfiles = (IF old.ex THEN (RecordPath(n) :> old.c) ELSE <<>>)
                         @@ (IF tmp.ex THEN (DataDir \o <<WithSuffix(n, "tmp")>> :> tmp.c) ELSE <<>>)
    /\ objs = <<>> /\ fileCache = <<>> /\ folderCache = <<>>
    /\ last = NoCall /\ steps = 0
    /\ wr = [w \in Writers |-> WIdle]
    /\ rd = RIdle
    /\ saved = NoSaved
    /\ helpers = Started(backend)

ConcFrame == UNCHANGED <<backend, helpers, objs, fileCache, folderCache, last, steps, prior, saved>>

\* save_json is called: filepath = self.data_dir / filename
WStart(w) ==
    /\ wr[w].pc = "idle"
    /\ \E n \in RecordNames, r \in ConcRecords :
         wr' = [wr EXCEPT ![w] = [WIdle EXCEPT !.pc = "mkdir", !.name = n, !.data = r]]
    /\ UNCHANGED <<lfiles, ldirs, rd>> /\ ConcFrame

\* filepath.parent.mkdir(parents=True, exist_ok=True)
WMkdir(w) ==
    /\ wr[w].pc = "mkdir"
    /\ ldirs' = LMkdirParents(LNow, FolderOf(RecordPath(wr[w].name))).dirs
    /\ wr' = [wr EXCEPT ![w].pc = "open"]
    /\ UNCHANGED <<lfiles, rd>> /\ ConcFrame

\* open(temp_path, "w")
WOpen(w) ==
    LET temp == temp_path(RecordPath(wr[w].name)) IN
    /\ wr[w].pc = "open"
    /\ lfiles' = LOpenW(LNow, temp).files
    /\ rd' = HandleAfterOpenW(rd, temp)
    /\ wr' = [wr EXCEPT ![w].pc = "write", ![w].pos = 0, ![w].hpath = temp]
    /\ UNCHANGED ldirs /\ ConcFrame

\* json.dump(data, f): one f.write per token through the open handle, which
\* follows its file through a rename; then the file is closed
WWrite(w) ==
    LET toks == Dumps(wr[w].data)
        at == wr[w].hpath
    IN  /\ wr[w].pc = "write"
        /\ IF wr[w].pos < Len(toks)
           THEN /\ IF at = Unlinked THEN UNCHANGED <<lfiles, rd>>
                   ELSE /\ lfiles' = LWriteAt(LNow, at, wr[w].pos, <<toks[wr[w].pos + 1]>>).files
                        /\ rd' = HandleAfterWrite(rd, at, lfiles'[at])
                /\ wr' = [wr EXCEPT ![w].pos = @ + 1]
           ELSE /\ wr' = [wr EXCEPT ![w].pc = "replace"]
                /\ UNCHANGED <<lfiles, rd>>
        /\ UNCHANGED ldirs /\ ConcFrame

\* temp_path.replace(filepath); with the temporary file gone it raises
\* FileNotFoundError and save_json fails
WReplace(w) ==
    LET filepath == RecordPath(wr[w].name)
        temp == temp_path(filepath)
    IN  /\ wr[w].pc = "replace"
        /\ IF temp \in DOMAIN lfiles
           THEN /\ lfiles' = LReplace(LNow, temp, filepath).files
                /\ rd' = HandleAfterReplace(rd, temp, filepath)
                /\ wr' = [WritersAfterReplace(wr, temp, filepath) EXCEPT ![w].pc = "done"]
           ELSE /\ wr' = [wr EXCEPT ![w].pc = "failed"]
                /\ UNCHANGED <<lfiles, rd>>
        /\ UNCHANGED ldirs /\ ConcFrame

\* The writing process is interrupted: it takes no further step.
WCrash(w) ==
    /\ wr[w].pc \in {"mkdir", "open", "write", "replace"}
    /\ wr' = [wr EXCEPT ![w].pc = "crashed"]
    /\ UNCHANGED <<lfiles, ldirs, rd>> /\ ConcFrame

\* load_json is called: if filepath.exists()
RExists ==
    /\ rd.pc \in {"idle", "done"}
    /\ \E n \in RecordNames :
         rd' = IF RecordPath(n) \in DOMAIN lfiles
               THEN [RIdle EXCEPT !.pc = "open", !.name = n]
               ELSE [RIdle EXCEPT !.pc = "done", !.name = n, !.ret = RJson(EmptyDict)]
    /\ UNCHANGED <<lfiles, ldirs, wr>> /\ ConcFrame

\* open(filepath, "r"); a file that is gone raises, and {} is returned
ROpen ==
    LET filepath == RecordPath(rd.name) IN
    /\ rd.pc = "open"
    /\ rd' = IF filepath \in DOMAIN lfiles
             THEN [rd EXCEPT !.pc = "read", !.hpath = filepath, !.h = lfiles[filepath],
                             !.fresh = TRUE]
             ELSE [rd EXCEPT !.pc = "done", !.ret = RJson(EmptyDict)]
    /\ UNCHANGED <<lfiles, ldirs, wr>> /\ ConcFrame

\* json.load(f): the whole file is read and parsed; a parse error gives {}
RRead ==
    /\ rd.pc = "read"
    /\ rd' = LET r == Loads(rd.h) IN
             [rd EXCEPT !.pc = "done", !.seen = Present(rd.h),
                        !.ret = RJson(IF r.ok THEN r.val ELSE EmptyDict)]
    /\ UNCHANGED <<lfiles, ldirs, wr>> /\ ConcFrame

ReaderNext == RExists \/ ROpen \/ RRead
WriterNext(w) == WStart(w) \/ WMkdir(w) \/ WOpen(w) \/ WWrite(w) \/ WReplace(w) \/ WCrash(w)

\* One save_json, which may be interrupted, against a reader that keeps
\* reading.
NextAtomic == WriterNext(1) \/ ReaderNext
SpecAtomic == InitConc /\ [][NextAtomic]_vars

\* Two save_json calls of two processes on one record, against a reader.
NextRace == WriterNext(1) \/ WriterNext(2) \/ ReaderNext
SpecRace == InitConc /\ [][NextRace]_vars

(***************************************************************************)
(* list_files over a directory "logs" that holds dated files               *)
(***************************************************************************)
LogNames == {Day1, Day2, Day3, FooMdBak}

\* The sequences without repetition over a set of names: the orders in which
\* the files of a directory can have been created.
Orders(names) ==
    {q \in UNION {[1..n -> names] : n \in 0..Cardinality(names)} :
        \A i, j \in 1..Len(q) : q[i] = q[j] => i = j}

\* logs holds the files of an order, and possibly a subdirectory with a
\* dated file of its own.
InitList ==
    /\ backend \in {"local", "drive"}
    /\ \E order \in Orders(LogNames), sub \in BOOLEAN :
         IF backend = "local"
         THEN /\ ldirs = {<<>>, <<Logs>>} \cup (IF sub THEN {<<Logs, Sub>>} ELSE {})
              /\ lfiles = [p \in {<<Logs, order[i]>> : i \in 1..Len(order)}
                                  \cup (IF sub THEN {<<Logs, Sub, Day1>>} ELSE {})
                            |-> Text1]
              /\ objs = <<>>
         ELSE /\ ldirs = {} /\ lfiles = <<>>
              /\ objs = <<Folder(Logs, RootId)>>
                         \o [i \in 1..Len(order) |-> File(order[i], 1, Text1)]
                         \o (IF sub THEN <<Folder(Sub, 1), File(Day1, Len(order) + 2, Text1)>>
                             ELSE <<>>)
    /\ fileCache = <<>> /\ folderCache = <<>>
    /\ last = NoCall /\ steps = 0
    /\ wr = [w \in Writers |-> WIdle]
    /\ rd = RIdle
    /\ prior = Absent
    /\ saved = NoSaved
    /\ helpers = Started(backend)

LocalWriteLog ==
    /\ LocalReady
    /\ \E n \in LogNames : \E fault \in LocalWriteFaults(Text2, {"mkdir", "open"}) :
         \E out \in {LocalStorage_write_text(LNow, <<Logs, n>>, Text2, fault)} :
              LocalCall("write_text", <<Logs, n>>, Text2, fault, out)

DriveWriteLog ==
    /\ DriveReady
    /\ \E n \in LogNames, b \in {0, MaxCalls} :
         \E out \in {GoogleDriveStorage_write_text(DNow(b), <<Logs, n>>, Text2)} :
              DriveCall("write_text", <<Logs, n>>, Text2, out)

NextList ==
    \/ LocalListFiles \/ LocalWriteLog
    \/ DriveListFiles \/ DriveWriteLog \/ ExternalRename
SpecList == InitList /\ [][NextList]_vars

(***************************************************************************)
(* GoogleDriveStorage.append_text by two processes on one path: each has   *)
(* its own instance and caches, and their API requests interleave          *)
(***************************************************************************)
AppendPath == <<A, B, FMd>>

AIdle == [pc |-> "idle", piece |-> <<>>, existing |-> RNone, dirty |-> FALSE,
          fc |-> <<>>, dc |-> <<>>]

\* last.appended: the pieces of the appends that returned normally, in the
\* order of their uploads; last.clean: no upload so far came after another
\* process uploaded between its read and its upload.
InitAppend ==
    /\ backend = "drive"
    /\ lfiles = <<>> /\ ldirs = {}
    /\ objs \in {DriveNoData, Append(DriveNoData, File(FMd, 2, Text1))}
    /\ prior = IF Len(objs) = 3 THEN Present(Text1) ELSE Absent
    /\ fileCache = <<>> /\ folderCache = <<>>
    /\ last = [appended |-> <<>>, clean |-> TRUE]
    /\ steps = 0
    /\ wr = [w \in Writers |-> AIdle]
    /\ rd = RIdle
    /\ saved = NoSaved
    /\ helpers = Started(backend)

AppendFrame == UNCHANGED <<backend, helpers, lfiles, ldirs, fileCache, folderCache, rd, prior, saved>>

\* append_text(path, content) is called
AStart(w) ==
    /\ wr[w].pc \in {"idle", "done", "failed"} /\ steps < MaxSteps
    /\ \E c \in Texts : wr' = [wr EXCEPT ![w].pc = "read", ![w].piece = c]
    /\ steps' = steps + 1
    /\ UNCHANGED <<objs, last>> /\ AppendFrame

\* existing = self.read_text(path)
ARead(w) ==
    /\ wr[w].pc = "read"
    /\ \E b \in Budgets :
         \E e \in {GoogleDriveStorage_read_text(DSt(objs, wr[w].fc, wr[w].dc, b), AppendPath)} :
            wr' = [wr EXCEPT ![w].pc = IF e.exc = NoExc THEN "upload" ELSE "failed",
                             ![w].existing = e.ret, ![w].dirty = FALSE,
                             ![w].fc = e.fc, ![w].dc = e.dc]
    /\ UNCHANGED <<objs, last, steps>> /\ AppendFrame

\* self._upload_content(path, content, ...)
AUpload(w) ==
    /\ wr[w].pc = "upload"
    /\ \E b \in Budgets :
         \E u \in {upload_content(DSt(objs, wr[w].fc, wr[w].dc, b), AppendPath,
                                   AppendedContent(wr[w].existing, wr[w].piece))} :
            /\ objs' = u.objs
            /\ wr' = [v \in Writers |->
                        IF v = w
                        THEN [wr[w] EXCEPT !.pc = IF u.exc = NoExc THEN "done" ELSE "failed",
                                           !.fc = u.fc, !.dc = u.dc]
                        ELSE IF u.exc = NoExc /\ wr[v].pc = "upload"
                        THEN [wr[v] EXCEPT !.dirty = TRUE]
                        ELSE wr[v]]
            /\ last' = IF u.exc = NoExc
                       THEN [appended |-> Append(last.appended, wr[w].piece),
                             clean |-> last.clean /\ ~wr[w].dirty]
                       ELSE last
    /\ UNCHANGED steps /\ AppendFrame

NextAppend == \E w \in Writers : AStart(w) \/ ARead(w) \/ AUpload(w)
SpecAppend == InitAppend /\ [][NextAppend]_vars

(***************************************************************************)
(* tools/context.py: add_decision on the file fallback, by two processes   *)
(* that share the data directory.  The handler runs from load_json to      *)
(* save_json without yielding, so the calls of one process cannot          *)
(* interleave; those of two processes can, between the load and the save.  *)
(***************************************************************************)
DecisionsJson == <<"technology_decisions", "json">>

\* f"TECH-{n:03d}"
TechIds == <<"TECH-001", "TECH-002", "TECH-003", "TECH-004", "TECH-005", "TECH-006",
             "TECH-007", "TECH-008", "TECH-009", "TECH-010">>
TechId(n) == TechIds[n]
\* Ids written by hand without the padding: int("5") is int("005").
TechUnpadded == <<"TECH-1", "TECH-2", "TECH-3", "TECH-4", "TECH-5", "TECH-6", "TECH-7",
                  "TECH-8", "TECH-9", "TECH-10">>
\* int(did.split("-")[1]) for an id that starts with "TECH-" and continues
\* with a number; 0, the start of max_num, for every other id.
TechNum(did) ==
    IF \E n \in 1..Len(TechIds) : TechIds[n] = did
    THEN CHOOSE n \in 1..Len(TechIds) : TechIds[n] = did
    ELSE IF \E n \in 1..Len(TechUnpadded) : TechUnpadded[n] = did
    THEN CHOOSE n \in 1..Len(TechUnpadded) : TechUnpadded[n] = did
    ELSE 0

\* d.get(key, default)
DictGet(d, key, default) ==
    IF \E i \in 1..Len(d.items) : d.items[i][1] = key
    THEN d.items[CHOOSE i \in 1..Len(d.items) : d.items[i][1] = key][2]
    ELSE default
\* d[key] = val
DictSet(d, key, val) ==
    IF \E i \in 1..Len(d.items) : d.items[i][1] = key
    THEN [d EXCEPT !.items = [i \in 1..Len(d.items) |->
                                 IF d.items[i][1] = key THEN <<key, val>> ELSE d.items[i]]]
    ELSE [d EXCEPT !.items = Append(@, <<key, val>>)]

RECURSIVE MaxNum(_)
\* max_num over the ids of the decisions.
MaxNum(decisions) ==
    IF decisions = <<>> THEN 0
    ELSE LET n == TechNum(DictGet(Head(decisions), "id", StrV("")).s)
             m == MaxNum(Tail(decisions))
         IN  IF n > m THEN n ELSE m

\* A new decision numbered by the length of the list.
NewDecision_counted(decisions, arg) ==
    DictV(<< <<"id", StrV(TechId(Len(decisions) + 1))>>, <<"decision", StrV(arg)>> >>)

\* new_decision = {"id": new_id, ..., "decision": arguments["decision"], ...}
NewDecision(decisions, arg) ==
    DictV(<< <<"id", StrV(TechId(MaxNum(decisions) + 1))>>, <<"decision", StrV(arg)>> >>)

\* A list that holds the new decision alone.
AppendDecision_replacing(decisions, d) == <<d>>

\* decisions.append(new_decision)
AppendDecision(decisions, d) == Append(decisions, d)

\* data.get("decisions", [])
DecisionsOf(data) == DictGet(data, "decisions", ListV(<<>>)).items

\* datetime.now().strftime("%Y-%m-%d")
Today == "2026-01-20"

\* The record add_decision saves, from the record it loaded.
AddDecision(data, arg) ==
    DictSet(DictSet(data, "decisions",
                    ListV(AppendDecision(DecisionsOf(data),
                                         NewDecision(DecisionsOf(data), arg)))),
            "last_updated", StrV(Today))

DecisionArgs == {"use-sqlite", "use-postgres"}
DecisionRecords ==
    {DictV(<< <<"decisions", ListV(<<>>)>> >>),
     DictV(<< <<"decisions", ListV(<< DictV(<< <<"id", StrV("TECH-002")>>,
                                               <<"decision", StrV("use-json")>> >>),
                                      DictV(<< <<"id", StrV("ADR-7")>> >>) >>)>>,
              <<"last_updated", StrV("2025-12-31")>> >>),
     DictV(<< <<"decisions", ListV(<< DictV(<< <<"id", StrV("TECH-5")>> >>),
                                      DictV(<< <<"id", StrV("TECH-x")>> >>),
                                      DictV(<< <<"id", StrV("TECH-001")>> >>) >>)>> >>)}

DIdle == [pc |-> "idle", data |-> EmptyDict, arg |-> ""]

\* The record is absent or holds a complete document; last keeps the
\* decisions that calls reported as recorded, and whether every one of them
\* was saved from the record as it then was, by calls that met no failure.
InitDecide ==
    /\ backend = "local"
    /\ ldirs = InitialDirs
    /\ \E old \in {Absent} \cup {Present(Dumps(r)) : r \in DecisionRecords} :
            /\ prior = old
            /\ lfiles = IF old.ex THEN (RecordPath(DecisionsJson) :> old.c) ELSE <<>>
    /\ objs = <<>> /\ fileCache = <<>> /\ folderCache = <<>>
    /\ last = [added |-> <<>>, clean |-> TRUE, faulted |-> FALSE]
    /\ steps = 0
    /\ wr = [w \in Writers |-> DIdle]
    /\ rd = RIdle
    /\ saved = NoSaved
    /\ helpers = Started(backend)

DecideFrame == UNCHANGED <<backend, helpers, objs, fileCache, folderCache, rd, prior, saved>>

\* add_decision is called: data = load_json("technology_decisions.json")
DLoad(w) ==
    /\ wr[w].pc = "idle" /\ steps < MaxSteps
    /\ \E arg \in DecisionArgs, fault \in LocalReadFaults :
         \E out \in {LocalStorage_load_json(LNow, DecisionsJson, fault)} :
            /\ wr' = [wr EXCEPT ![w] = [pc |-> "loaded", data |-> out.ret.v, arg |-> arg]]
            /\ last' = [last EXCEPT !.faulted = @ \/ fault # NoFault]
    /\ steps' = steps + 1
    /\ UNCHANGED <<lfiles, ldirs>> /\ DecideFrame

\* The rest of the handler: the new decision is appended to the loaded list
\* and save_json("technology_decisions.json", data) stores the record.
DSave(w) ==
    /\ wr[w].pc = "loaded"
    /\ \E new \in {AddDecision(wr[w].data, wr[w].arg)} :
       \E fault \in LocalWriteFaults(Dumps(new), {"open", "replace"}) :
       \E out \in {LocalStorage_save_json(LNow, DecisionsJson, new, fault)} :
            /\ lfiles' = out.fs.files
            /\ ldirs' = out.fs.dirs
            /\ last' = IF out.exc # NoExc THEN last
                       ELSE [last EXCEPT
                               !.added = Append(@, [w |-> w, read |-> DecisionsOf(wr[w].data),
                                                    d |-> NewDecision(DecisionsOf(wr[w].data),
                                                                      wr[w].arg)]),
                               !.clean = @ /\ wr[w].data =
                                   LocalStorage_load_json(LNow, DecisionsJson, NoFault).ret.v]
    /\ wr' = [wr EXCEPT ![w] = DIdle]
    /\ UNCHANGED steps /\ DecideFrame

NextDecide == \E w \in Writers : DLoad(w) \/ DSave(w)
SpecDecide == InitDecide /\ [][NextDecide]_vars

(***************************************************************************)
(* tools/helpers.py: init_storage, get_backend, load_json and save_json,   *)
(* called from two threads of one process, get_backend statement by        *)
(* statement.                                                              *)
(***************************************************************************)
\* if _backend is None
NeedsInit_always(h) == TRUE
NeedsInit(h) == h.backend = NoBackend

HIdle == [pc |-> "idle", op |-> "", new |-> NoBackend, got |-> NoBackend]
HelperOps == {"get_backend", "load_json", "save_json"}

InitHelpers ==
    /\ backend = "none"
    /\ ldirs = InitialDirs /\ lfiles = <<>>
    /\ objs = DriveWithData /\ fileCache = <<>> /\ folderCache = <<>>
    /\ last = [NoCall EXCEPT !.id = NoBackend]
    /\ steps = 0
    /\ wr = [w \in Writers |-> HIdle]
    /\ rd = RIdle
    /\ prior = Absent
    /\ saved = NoSaved
    /\ helpers = NotStarted

\* create_server(b): a backend that is given, or LocalStorage() for None,
\* and init_storage(b): _backend = backend.  It runs at startup, before the
\* server takes calls.
InitStorage ==
    /\ ~helpers.inited
    /\ \A w \in Writers : wr[w].pc = "idle"
    /\ \E kind \in {"local", "drive"} :
         /\ helpers' = [helpers EXCEPT !.backend = Len(helpers.insts) + 1,
                                        !.insts = Append(@, kind), !.inited = TRUE]
         /\ backend' = kind
    /\ UNCHANGED <<lfiles, ldirs, objs, fileCache, folderCache, last, steps, wr, rd, prior, saved>>

HelperFrame == UNCHANGED <<lfiles, ldirs, objs, fileCache, folderCache, rd, prior, saved>>

\* get_backend() is entered, by itself or from load_json / save_json:
\* if _backend is None
GCheck(w) ==
    /\ wr[w].pc = "idle" /\ steps < MaxSteps
    /\ \E op \in HelperOps :
         wr' = [wr EXCEPT ![w] = [HIdle EXCEPT !.op = op,
                                   !.pc = IF NeedsInit(helpers) THEN "construct" ELSE "return"]]
    /\ steps' = steps + 1
    /\ UNCHANGED <<backend, helpers, last>> /\ HelperFrame

\* LocalStorage(): an instance, or an exception that get_backend turns into
\* RuntimeError("Cannot initialize storage backend")
GConstruct(w) ==
    /\ wr[w].pc = "construct"
    /\ \/ /\ helpers' = [helpers EXCEPT !.insts = Append(@, "local"),
                                          !.lazy = @ \cup {Len(helpers.insts) + 1}]
          /\ wr' = [wr EXCEPT ![w].pc = "assign", ![w].new = Len(helpers.insts) + 1]
          /\ UNCHANGED last
       \/ /\ wr' = [wr EXCEPT ![w] = HIdle]
          /\ last' = [NoCall EXCEPT !.op = wr[w].op, !.exc = "RuntimeError", !.id = NoBackend]
          /\ UNCHANGED helpers
    /\ UNCHANGED <<backend, steps>> /\ HelperFrame

\* _backend = <the instance>
GAssign(w) ==
    /\ wr[w].pc = "assign"
    /\ helpers' = [helpers EXCEPT !.backend = wr[w].new]
    /\ backend' = "local"
    /\ wr' = [wr EXCEPT ![w].pc = "return"]
    /\ UNCHANGED <<steps, last>> /\ HelperFrame

\* return _backend, and for load_json / save_json the call on the instance
\* returned.
GReturn(w) ==
    /\ wr[w].pc = "return"
    /\ LET inst == helpers.backend
           kind == helpers.insts[inst]
       IN  \E r \in Records :
             \E out \in {IF wr[w].op = "get_backend" THEN LOut(LNow, NoExc, RVoid)
                         ELSE IF kind = "local"
                         THEN IF wr[w].op = "load_json"
                              THEN LocalStorage_load_json(LNow, TasksJson, NoFault)
                              ELSE LocalStorage_save_json(LNow, TasksJson, r, NoFault)
                         ELSE IF wr[w].op = "load_json"
                              THEN GoogleDriveStorage_load_json(DNow(MaxCalls), TasksJson)
                              ELSE GoogleDriveStorage_save_json(DNow(MaxCalls), TasksJson, r)} :
                /\ IF wr[w].op = "get_backend" \/ kind = "local"
                   THEN /\ lfiles' = out.fs.files /\ ldirs' = out.fs.dirs
                        /\ UNCHANGED <<objs, fileCache, folderCache>>
                   ELSE /\ objs' = out.objs /\ fileCache' = out.fc /\ folderCache' = out.dc
                        /\ UNCHANGED <<lfiles, ldirs>>
                /\ last' = [NoCall EXCEPT !.op = wr[w].op, !.exc = out.exc, !.ret = out.ret,
                                          !.id = inst]
                /\ wr' = [wr EXCEPT ![w] = [HIdle EXCEPT !.got = inst]]
    /\ UNCHANGED <<backend, helpers, steps, rd, prior, saved>>

NextHelpers ==
    \/ InitStorage
    \/ \E w \in Writers : GCheck(w) \/ GConstruct(w) \/ GAssign(w) \/ GReturn(w)
SpecHelpers == InitHelpers /\ [][NextHelpers]_vars

(***************************************************************************)
(* server.py: call_tool over the tool modules, context first.  The         *)
(* context handler is the one of tools/context.py on the file fallback;    *)
(* the handlers of the other modules are taken by their outcome: a result, *)
(* or an exception of any class a handler can raise.                       *)
(***************************************************************************)
HandlerExcs == {"PermissionError", "OSError", "FileNotFoundError", "HttpError",
                "JSONDecodeError", "KeyError", "RuntimeError", "ValueError"}
OtherTools == {"add_task"}
ToolNames == {"add_decision", "get_technology_decisions"} \cup OtherTools \cup {"no_such_tool"}
\* arguments: with the keys the handler indexes, or without
ToolArguments == {{"decision"}, {}}

\* What a handler leaves and gives: the stores, the exception it raised, its
\* result (RNone for None, "not my tool").
HOut(fs, d, exc, ret) ==
    [files |-> fs.files, dirs |-> fs.dirs, objs |-> d.objs, fc |-> d.fc, dc |-> d.dc,
     exc |-> exc, ret |-> ret]

\* tools/context.py handler(name, arguments)
context_handler(name, arguments, rf, wf, b) ==
    IF name = "get_technology_decisions"
    THEN IF backend = "local"
         THEN HOut(LNow, DNow(b), NoExc,
                   RText(Dumps(LocalStorage_load_json(LNow, DecisionsJson, rf).ret.v)))
         ELSE Eval({ HOut(LNow, ld, ld.exc,
                          IF ld.exc = NoExc THEN RText(Dumps(ld.ret.v)) ELSE RVoid)
                     : ld \in {GoogleDriveStorage_load_json(DNow(b), DecisionsJson)} })
    ELSE IF name = "add_decision"
    THEN IF "decision" \notin arguments THEN HOut(LNow, DNow(b), "KeyError", RVoid)
         ELSE IF backend = "local"
         THEN Eval({ HOut(sv.fs, DNow(b), sv.exc,
                          IF sv.exc = NoExc THEN RText(<<Txt("Decision recorded")>>) ELSE RVoid)
                     : sv \in {LocalStorage_save_json(LNow, DecisionsJson,
                                  AddDecision(LocalStorage_load_json(LNow, DecisionsJson, rf).ret.v,
                                              "use-sqlite"), wf)} })
         ELSE Eval({ IF ld.exc # NoExc THEN HOut(LNow, ld, ld.exc, RVoid)
                     ELSE Eval({ HOut(LNow, sv, sv.exc,
                                      IF sv.exc = NoExc THEN RText(<<Txt("Decision recorded")>>)
                                      ELSE RVoid)
                                 : sv \in {GoogleDriveStorage_save_json(
                                              ld, DecisionsJson,
                                              AddDecision(ld.ret.v, "use-sqlite"))} })
                     : ld \in {GoogleDriveStorage_load_json(DNow(b), DecisionsJson)} })
    ELSE HOut(LNow, DNow(b), NoExc, RNone)

\* The handler of a later module: None for a tool that is not its own, else
\* the outcome oc.
other_handler(name, given, oc) ==
    IF name \in OtherTools THEN [given EXCEPT !.exc = oc.exc, !.ret = oc.ret] ELSE given

\* except Exception as e: every exception class a handler raises derives
\* from Exception.
Caught_os_errors(exc) == exc \in {"PermissionError", "OSError", "FileNotFoundError"}
Caught(exc) == TRUE

\* hint: by the type and the message of the exception
Hint(exc) ==
    CASE exc = "FileNotFoundError" -> <<Txt("Check if the path exists")>>
      [] exc = "PermissionError" -> <<Txt("Check file permissions")>>
      [] exc = "JSONDecodeError" -> <<Txt("Data file may be corrupted")>>
      [] OTHER -> <<>>

\* The except branch: the error as a text result.
ErrorResult(name, out) ==
    IF Caught(out.exc)
    THEN [out EXCEPT !.exc = NoExc,
                     !.ret = RText(<<Txt("Error in"), Txt(name), Txt(out.exc)>> \o Hint(out.exc))]
    ELSE out

\* create_server.call_tool(name, arguments)
call_tool(name, arguments, rf, wf, b, oc) ==
    Eval({ IF c.exc # NoExc THEN ErrorResult(name, c)
           ELSE IF c.ret # RNone THEN c
           ELSE Eval({ IF o.exc # NoExc THEN ErrorResult(name, o)
                       ELSE IF o.ret # RNone THEN o
                       ELSE [o EXCEPT !.ret = RText(<<Txt("Unknown tool"), Txt(name)>>)]
                       : o \in {other_handler(name, c, oc)} })
           : c \in {context_handler(name, arguments, rf, wf, b)} })

ServerIdle == [op |-> "init", name |-> "", exc |-> NoExc, ret |-> RVoid, errors |-> 0]

\* A server that create_server(b) has set up, over a store with or without
\* a decisions record.
InitServer ==
    /\ backend \in {"local", "drive"}
    /\ \E old \in {Absent} \cup {Present(Dumps(r)) : r \in DecisionRecords} :
         IF backend = "local"
         THEN /\ ldirs = InitialDirs
              /\ lfiles = IF old.ex THEN (RecordPath(DecisionsJson) :> old.c) ELSE <<>>
              /\ objs = <<>>
         ELSE /\ ldirs = {} /\ lfiles = <<>>
              /\ objs = DriveWithData
                        \o (IF old.ex THEN <<File(DecisionsJson, 3, old.c)>> ELSE <<>>)
    /\ fileCache = <<>> /\ folderCache = <<>>
    /\ last = ServerIdle
    /\ steps = 0
    /\ wr = [w \in Writers |-> WIdle]
    /\ rd = RIdle
    /\ prior = Absent
    /\ saved = NoSaved
    /\ helpers = Started(backend)

\* The server takes a call, as long as no exception has left call_tool.
CallTool ==
    /\ steps < MaxSteps /\ last.exc = NoExc
    /\ \E name \in ToolNames, arguments \in ToolArguments :
       \E rf \in (IF backend = "local" THEN LocalReadFaults ELSE {NoFault}),
          wf \in (IF backend = "local" THEN LocalWriteFaults(<<>>, {"open", "replace"})
                  ELSE {NoFault}),
          b \in (IF backend = "drive" THEN Budgets ELSE {MaxCalls}),
          oc \in {[exc |-> NoExc, ret |-> RText(<<Txt("Task added")>>)]}
                 \cup (IF name \in OtherTools
                       THEN {[exc |-> e, ret |-> RVoid] : e \in HandlerExcs} ELSE {}) :
         \E out \in {call_tool(name, arguments, rf, wf, b, oc)} :
            /\ lfiles' = out.files /\ ldirs' = out.dirs
            /\ objs' = out.objs /\ fileCache' = out.fc /\ folderCache' = out.dc
            /\ last' = [op |-> "call_tool", name |-> name, exc |-> out.exc, ret |-> out.ret,
                        errors |-> last.errors
                                   + (IF out.exc = NoExc /\ out.ret.v # <<>>
                                         /\ out.ret.v[1] = Txt("Error in") THEN 1 ELSE 0)]
    /\ steps' = steps + 1
    /\ UNCHANGED <<backend, helpers, wr, rd, prior, saved>>

SpecServer == InitServer /\ [][CallTool]_vars

(***************************************************************************)
(* Construction of the backends                                            *)
(***************************************************************************)
\* A shared_drive_root given explicitly, beside the data directory's parent.
Shared == <<<<"shared">>>>
NoInstance == [kind |-> "none", root |-> <<>>, drive_id |-> ""]

\* The failures of the constructor's path checks: data_dir.exists() or
\* shared_drive_root.exists() raises, or mkdir fails after creating the
\* first k levels of the data directory's path.
InitFaults ==
    {NoFault}
    \cup {[exc |-> "PermissionError", at |-> a, k |-> 0] : a \in {"exists", "root_exists"}}
    \cup {[exc |-> e, at |-> "mkdir", k |-> k] : e \in LocalExcs, k \in 0..1}

\* A constructor that gives up when the data directory cannot be created.
MkdirFailed_fatal(fault) == "RuntimeError"

\* The except clause around data_dir.mkdir: the failure is logged.
MkdirFailed(fault) == NoExc

\* LocalStorage.__init__(data_dir, shared_drive_root); shared_drive_root is
\* {} for None, or holds the path given.
LocalStorage_init(fs, data_dir, shared_drive_root, fault) ==
    LET root == IF shared_drive_root = {} THEN FolderOf(data_dir)
                ELSE CHOOSE r \in shared_drive_root : TRUE
        inst == [kind |-> "local", root |-> root, drive_id |-> ""]
        fails == [fs |-> fs, exc |-> "RuntimeError", inst |-> NoInstance]
    IN IF fault.at = "exists" THEN fails
       ELSE IF data_dir \in fs.dirs
       THEN IF fault.at = "root_exists" THEN fails
            ELSE [fs |-> fs, exc |-> NoExc, inst |-> inst]
       ELSE IF fault.at = "mkdir"
       THEN LET part == [fs EXCEPT !.dirs = @ \cup {d \in Prefixes(data_dir) : Len(d) < fault.k}]
            IN IF MkdirFailed(fault) = NoExc
               THEN [fs |-> part, exc |-> NoExc, inst |-> inst]
               ELSE [fails EXCEPT !.fs = part]
       ELSE LET made == LMkdirParents(fs, data_dir)
            IN IF fault.at = "root_exists" THEN [fails EXCEPT !.fs = made]
               ELSE [fs |-> made, exc |-> NoExc, inst |-> inst]

\* The environment of GoogleDriveStorage(): GOOGLE_SERVICE_ACCOUNT_JSON,
\* GOOGLE_SERVICE_ACCOUNT_FILE ("" unset, "bad" unusable) and
\* GOOGLE_SHARED_DRIVE_ID.
DriveEnvs == [creds_json : {"", "good", "bad"}, creds_path : {"", "good", "bad"},
              drive_id : {"", "D1"}]
\* The shared drives named om-apex that the account sees.
DriveLists == {<<>>, <<"D2">>}

\* A lookup that answers the empty id when no drive is found.
find_shared_drive_lenient(drives, ok) ==
    IF ~ok THEN [exc |-> "HttpError", id |-> ""]
    ELSE [exc |-> NoExc, id |-> IF drives = <<>> THEN "" ELSE drives[1]]

\* GoogleDriveStorage._find_shared_drive(name); ok: the request succeeds.
find_shared_drive(drives, ok) ==
    IF ~ok THEN [exc |-> "HttpError", id |-> ""]
    ELSE IF drives = <<>> THEN [exc |-> "ValueError", id |-> ""]
    ELSE [exc |-> NoExc, id |-> drives[1]]

\* GoogleDriveStorage.__init__()
GoogleDriveStorage_init(env, drives, ok) ==
    LET fails(e) == [exc |-> e, inst |-> NoInstance]
        found == IF env.drive_id # "" THEN [exc |-> NoExc, id |-> env.drive_id]
                 ELSE find_shared_drive(drives, ok)
    IN IF env.creds_json # ""
       THEN IF env.creds_json = "bad" THEN fails("ValueError")
            ELSE IF found.exc # NoExc THEN fails(found.exc)
            ELSE [exc |-> NoExc, inst |-> [kind |-> "drive", root |-> <<>>, drive_id |-> found.id]]
       ELSE IF env.creds_path # ""
       THEN IF env.creds_path = "bad" THEN fails("FileNotFoundError")
            ELSE IF found.exc # NoExc THEN fails(found.exc)
            ELSE [exc |-> NoExc, inst |-> [kind |-> "drive", root |-> <<>>, drive_id |-> found.id]]
       ELSE fails("ValueError")

NoEnv == [creds_json |-> "", creds_path |-> "", drive_id |-> ""]
BootIdle == [op |-> "init", path |-> <<>>, exc |-> NoExc, ret |-> RVoid, at |-> "none",
             env |-> NoEnv, drives |-> <<>>, ok |-> TRUE, inst |-> NoInstance]

\* Before any backend exists: a filesystem with nothing, with the parent of
\* the data directory only, with the data directory and a blob, or with an
\* explicit shared root and a blob as well; a drive with its data folder.
InitBoot ==
    /\ backend = "none"
    /\ \E fs \in {LFs(<<>>, {}), LFs(<<>>, {<<>>}),
                  LFs(<<A, B, FMd>> :> Text1, InitialDirs),
                  LFs((<<A, B, FMd>> :> Text1) @@ ((Shared \o <<A, B, FMd>>) :> Text2),
                      InitialDirs \cup Prefixes(Shared \o <<A, B>>))} :
         lfiles = fs.files /\ ldirs = fs.dirs
    /\ objs = DriveWithData \o <<File(FMd, 2, Text1)>>
    /\ fileCache = <<>> /\ folderCache = <<>>
    /\ last = BootIdle
    /\ steps = 0
    /\ wr = [w \in Writers |-> WIdle]
    /\ rd = RIdle
    /\ prior = Absent
    /\ saved = NoSaved
    /\ helpers = NotStarted

\* The globals once a constructed backend has been handed to create_server.
Serving(inst) == [backend |-> 1, insts |-> <<inst>>, inited |-> TRUE, lazy |-> {}]
Instance == IF helpers.insts = <<>> THEN NoInstance ELSE helpers.insts[1]

\* LocalStorage(data_dir, shared_drive_root) at startup.
NewLocalStorage ==
    /\ backend = "none" /\ steps < MaxSteps
    /\ \E shared_drive_root \in {{}, {Shared}}, fault \in InitFaults :
       \E out \in {LocalStorage_init(LNow, DataDir, shared_drive_root, fault)} :
         /\ lfiles' = out.fs.files /\ ldirs' = out.fs.dirs
         /\ last' = [BootIdle EXCEPT !.op = "LocalStorage", !.exc = out.exc, !.at = fault.at,
                                     !.inst = out.inst]
         /\ IF out.exc = NoExc
            THEN backend' = "local" /\ helpers' = Serving(out.inst)
            ELSE UNCHANGED <<backend, helpers>>
    /\ steps' = steps + 1
    /\ UNCHANGED <<objs, fileCache, folderCache, wr, rd, prior, saved>>

\* GoogleDriveStorage() at startup.
NewGoogleDriveStorage ==
    /\ backend = "none" /\ steps < MaxSteps
    /\ \E env \in DriveEnvs, drives \in DriveLists, ok \in BOOLEAN :
       \E out \in {GoogleDriveStorage_init(env, drives, ok)} :
         /\ last' = [BootIdle EXCEPT !.op = "GoogleDriveStorage", !.exc = out.exc, !.env = env,
                                     !.drives = drives, !.ok = ok, !.inst = out.inst]
         /\ IF out.exc = NoExc
            THEN backend' = "drive" /\ helpers' = Serving(out.inst)
            ELSE UNCHANGED <<backend, helpers>>
    /\ steps' = steps + 1
    /\ UNCHANGED <<lfiles, ldirs, objs, fileCache, folderCache, wr, rd, prior, saved>>

\* str(f.relative_to(self.shared_drive_root)) of each listed path.
RelativeTo(root, ret) ==
    IF ret.k = "list" THEN RList([i \in 1..Len(ret.v) |->
                                     SubSeq(ret.v[i], Len(root) + 1, Len(ret.v[i]))])
    ELSE ret

BootPaths == {<<A, B, FMd>>, <<A, B>>, <<>>}
BootWrites == {"write_text", "append_text"}

\* A blob operation on the LocalStorage that was constructed, at
\* self.shared_drive_root / path.
BootLocalCall ==
    /\ backend = "local" /\ steps < MaxSteps
    /\ \E op \in {"read_text", "list_files", "file_exists", "write_text", "append_text"} :
       \E path \in (IF op \in BootWrites THEN {<<A, B, FMd>>} ELSE BootPaths),
          fault \in (IF op \in BootWrites THEN LocalWriteFaults(Text2, {"mkdir", "open"})
                     ELSE LocalReadFaults) :
       \E at \in {Instance.root \o path} :
       \E out \in {CASE op = "read_text" -> LocalStorage_read_text(LNow, at, fault)
                     [] op = "list_files" -> LocalStorage_list_files(LNow, at, StarMd, fault)
                     [] op = "file_exists" -> LocalStorage_file_exists(LNow, at, fault)
                     [] op = "write_text" -> LocalStorage_write_text(LNow, at, Text2, fault)
                     [] op = "append_text" ->
                          LocalStorage_append_text(LNow, at, Text2, fault)} :
         /\ lfiles' = out.fs.files /\ ldirs' = out.fs.dirs
         /\ last' = [BootIdle EXCEPT !.op = op, !.path = path, !.exc = out.exc,
                                     !.ret = RelativeTo(Instance.root, out.ret),
                                     !.at = fault.at, !.inst = Instance]
    /\ steps' = steps + 1
    /\ UNCHANGED <<backend, helpers, objs, fileCache, folderCache, wr, rd, prior, saved>>

\* A storage operation on the GoogleDriveStorage that was constructed.
BootDriveCall ==
    /\ backend = "drive" /\ steps < MaxSteps
    /\ \E op \in {"read_text", "file_exists"}, b \in {0, MaxCalls} :
       \E out \in {IF op = "read_text"
                   THEN GoogleDriveStorage_read_text(DNow(b), <<A, B, FMd>>)
                   ELSE GoogleDriveStorage_file_exists(DNow(b), <<A, B, FMd>>)} :
         /\ objs' = out.objs /\ fileCache' = out.fc /\ folderCache' = out.dc
         /\ last' = [BootIdle EXCEPT !.op = op, !.path = <<A, B, FMd>>, !.exc = out.exc,
                                     !.ret = out.ret, !.inst = Instance]
    /\ steps' = steps + 1
    /\ UNCHANGED <<backend, helpers, lfiles, ldirs, wr, rd, prior, saved>>

NextBoot == NewLocalStorage \/ NewGoogleDriveStorage \/ BootLocalCall \/ BootDriveCall
SpecBoot == InitBoot /\ [][NextBoot]_vars

(***************************************************************************)
(* read_text of blobs that other programs wrote, decodable or not          *)
(***************************************************************************)
\* ASCII text, UTF-8 text with a two-byte character, latin-1 text, a lone
\* 0xFF, and a two-byte sequence cut short.
Blobs == {Text1, <<Txt("c"), Raw("C3"), Raw("A9")>>, <<Txt("c"), Raw("E9")>>,
          <<Raw("FF")>>, <<Txt("c"), Raw("C3")>>}
DecodePaths == {<<A, B, FMd>>, <<A, B, C, FMd>>}
\* The failures of a local read_text: of its first open, or of the open of
\* its retry.
DecodeFaults == LocalReadFaults \cup {[exc |-> "OSError", at |-> "reopen", k |-> 0]}

InitDecode ==
    /\ backend \in {"local", "drive"}
    /\ \E old \in {Absent} \cup {Present(b) : b \in Blobs} :
         IF backend = "local"
         THEN /\ ldirs = InitialDirs
              /\ lfiles = IF old.ex THEN (<<A, B, FMd>> :> old.c) ELSE <<>>
              /\ objs = <<>>
         ELSE /\ ldirs = {} /\ lfiles = <<>>
              /\ objs = DriveWithData \o (IF old.ex THEN <<File(FMd, 2, old.c)>> ELSE <<>>)
    /\ fileCache = <<>> /\ folderCache = <<>>
    /\ last = NoCall /\ steps = 0
    /\ wr = [w \in Writers |-> WIdle]
    /\ rd = RIdle
    /\ prior = Absent
    /\ saved = NoSaved
    /\ helpers = Started(backend)

DecodeLocalRead ==
    /\ LocalReady
    /\ \E p \in DecodePaths, fault \in DecodeFaults :
         \E out \in {LocalStorage_read_text(LNow, p, fault)} :
              LocalCall("read_text", p, <<fault.at>>, fault, out)

DecodeDriveRead ==
    /\ DriveReady
    /\ \E p \in DecodePaths, b \in {0, 1, MaxCalls} :
         \E out \in {GoogleDriveStorage_read_text(DNow(b), p)} :
              DriveCall("read_text", p, <<>>, out)

\* Another program writes a file of the synced folder.
SyncedBytes ==
    /\ LocalReady
    /\ \E b \in Blobs :
         /\ lfiles' = (<<A, B, FMd>> :> b) @@ lfiles
         /\ last' = [NoCall EXCEPT !.op = "external_write", !.path = <<A, B, FMd>>]
    /\ steps' = steps + 1
    /\ UNCHANGED <<backend, helpers, ldirs, objs, fileCache, folderCache, wr, rd, prior, saved>>

\* Another user of the shared drive uploads a new content for a file.
UploadedBytes ==
    \E i \in 1..Len(objs), b \in Blobs :
        ExternalChange("external_write", i, [objs[i] EXCEPT !.content = b])

NextDecode == DecodeLocalRead \/ DecodeDriveRead \/ SyncedBytes \/ UploadedBytes
SpecDecode == InitDecode /\ [][NextDecode]_vars

(***************************************************************************)
(* _resolve_folder_id over paths with and without a repeated segment       *)
(***************************************************************************)
\* The folders a, a/b and mcp-data, and beside them nothing, or a/b/a, or
\* a/b/a and a/a.
FolderDrives ==
    {DriveWithData, DriveWithData \o <<Folder(A, 2)>>,
     DriveWithData \o <<Folder(A, 2), Folder(A, 1)>>}
WalkPaths == {<<A>>, <<A, B>>, <<A, B, A>>, <<A, A, B>>, <<A, B, C>>, <<>>}

InitFolders ==
    /\ backend = "drive"
    /\ ldirs = {} /\ lfiles = <<>>
    /\ objs \in FolderDrives
    /\ fileCache = <<>> /\ folderCache = <<>>
    /\ last = NoCall /\ steps = 0
    /\ wr = [w \in Writers |-> WIdle]
    /\ rd = RIdle
    /\ prior = Absent
    /\ saved = NoSaved
    /\ helpers = Started("drive")

\* _resolve_folder_id(folder_path), called as the operations call it.
WalkFolder ==
    /\ DriveReady
    /\ \E d \in WalkPaths, b \in Budgets :
         \E out \in {resolve_folder_id(DNow(b), d)} :
              DriveCall("resolve_folder_id", d, <<>>, out)

\* A write below a folder path: _upload_content resolves the folder.
WriteBelow ==
    /\ DriveReady
    /\ \E d \in {<<A, B, A>>, <<A, A, B>>}, b \in {0, MaxCalls} :
         \E out \in {GoogleDriveStorage_write_text(DNow(b), d \o <<FMd>>, Text1)} :
              DriveCall("write_text", d \o <<FMd>>, Text1, out)

NextFolders == WalkFolder \/ WriteBelow
SpecFolders == InitFolders /\ [][NextFolders]_vars

(***************************************************************************)
(* LocalStorage.save_json beside other records of the data directory       *)
(***************************************************************************)
TasksTmp == <<"tasks", "tmp">>
TasksYaml == <<"tasks", "yaml">>
NotesTmp == <<"notes", "tmp">>
FrameNames == {TasksJson, TasksTmp, TasksYaml, NotesTmp}

\* The data directory holds any of the records, each with some document.
InitFrame ==
    /\ backend = "local"
    /\ ldirs = InitialDirs
    /\ \E there \in SUBSET FrameNames :
         lfiles = [q \in {RecordPath(m) : m \in there} |-> Dumps(Rec1)]
    /\ objs = <<>> /\ fileCache = <<>> /\ folderCache = <<>>
    /\ last = NoCall /\ steps = 0
    /\ wr = [w \in Writers |-> WIdle]
    /\ rd = RIdle
    /\ prior = Absent
    /\ saved = NoSaved
    /\ helpers = Started("local")

FrameSaveJson ==
    /\ LocalReady
    /\ \E n \in FrameNames, r \in Records :
         \E fault \in LocalWriteFaults(<<>>, {"open", "replace"}) :
            \E out \in {LocalStorage_save_json(LNow, n, r, fault)} :
              LocalCall("save_json", RecordPath(n), r, fault, out)

FrameLoadJson ==
    /\ LocalReady
    /\ \E n \in FrameNames :
         \E out \in {LocalStorage_load_json(LNow, n, NoFault)} :
              LocalCall("load_json", RecordPath(n), <<>>, NoFault, out)

NextFrame == FrameSaveJson \/ FrameLoadJson
SpecFrame == InitFrame /\ [][NextFrame]_vars

(***************************************************************************)
(* What is stored, told from the store itself                              *)
(***************************************************************************)
ReadOps == {"load_json", "read_text", "file_exists"}
WriteOps == {"save_json", "write_text", "append_text"}

\* The not-found value of each read operation.
EmptyResult(op) ==
    CASE op = "load_json" -> RJson(EmptyDict)
      [] op = "read_text" -> RNone
      [] op = "file_exists" -> RBool(FALSE)

\* The content a write operation was asked to store.
ContentArg(l) == IF l.op = "save_json" THEN Dumps(l.data) ELSE l.data

\* The path of drive object i, walked up to the drive root.
RECURSIVE TruePath(_, _)
TruePath(o, i) ==
    IF o[i].parent = RootId THEN <<o[i].name>>
    ELSE TruePath(o, o[i].parent) \o <<o[i].name>>

FolderExists(o, dir) ==
    \/ dir = <<>>
    \/ \E i \in 1..Len(o) : o[i].kind = "folder" /\ o[i].live /\ TruePath(o, i) = dir

\* Something is, or once was, stored at path.
EverStored(path) ==
    IF backend = "local" THEN path \in DOMAIN lfiles
    ELSE \E i \in 1..Len(objs) : TruePath(objs, i) = path \/ objs[i].name = Renamed

\* The content now stored at path, if exactly that is decidable.
Malformed(path) ==
    IF backend = "local" THEN path \in DOMAIN lfiles /\ ~Loads(lfiles[path]).ok
    ELSE \E i \in 1..Len(objs) :
            /\ LiveFile(objs, i) /\ TruePath(objs, i) = path
            /\ ~Loads(objs[i].content).ok

CallsOf(l, api) == SelectSeq(l.calls, LAMBDA c : c.api = api)

\* The document of the concurrent save, the value load_json gives for a
\* stored document, and the record as it is stored now.
NewDocument == IF wr[1].pc = "idle" THEN prior ELSE Present(Dumps(wr[1].data))
ValueOf(f) == IF f.ex THEN RJson(Loads(f.c).val) ELSE RJson(EmptyDict)
RecordNow(n) ==
    IF RecordPath(n) \in DOMAIN lfiles THEN Present(lfiles[RecordPath(n)]) ELSE Absent

(***************************************************************************)
(* C1: one save_json against a concurrent load_json, the writer possibly   *)
(* interrupted: every read sees the record as it was or the whole new      *)
(* document, and the record itself never holds anything else.              *)
(***************************************************************************)
C1_ReaderSeesOldOrNew ==
    /\ \A n \in RecordNames : RecordNow(n) \in {prior, NewDocument}
    /\ rd.pc = "done" =>
         /\ rd.seen \in {Absent, prior, NewDocument}
         /\ rd.seen = Absent => (~prior.ex \/ rd.ret = ValueOf(prior))
         /\ rd.ret \in {ValueOf(prior), ValueOf(NewDocument)}

\* C1 witness: the writer was interrupted half way through the temporary
\* file, and a read made during the save has returned the earlier document.
C1_Witness ==
    /\ wr[1].pc = "crashed" /\ wr[1].pos > 0 /\ wr[1].pos < Len(Dumps(wr[1].data))
    /\ lfiles[temp_path(RecordPath(wr[1].name))] = SubSeq(Dumps(wr[1].data), 1, wr[1].pos)
    /\ rd.pc = "done" /\ prior.ex /\ rd.seen = prior /\ prior # NewDocument
    /\ rd.ret = ValueOf(prior) /\ rd.ret # RJson(EmptyDict)

(***************************************************************************)
(* C2: after a successful save_json(n, r) and no write to n since (reads,  *)
(* writes elsewhere and failed saves of n may come between), a load_json(n)*)
(* that meets no I/O failure returns r, on either backend.                 *)
(***************************************************************************)
C2_RoundTrip ==
    [][ (/\ saved.ok
         /\ last'.op = "load_json" /\ last'.path = saved.path /\ ~last'.faulted)
        => (last'.exc = NoExc /\ last'.ret = RJson(saved.data)) ]_vars

\* C2 witness: the record of the scenario has been saved on the drive and
\* loaded back.
C2_Witness ==
    /\ backend = "drive" /\ last.op = "load_json" /\ last.path = RecordPath(TasksJson)
    /\ saved.ok /\ saved.data = Rec1
    /\ last.ret = RJson(Rec1) /\ Len(objs) > 0
    /\ objs[Len(objs)].content = Dumps(Rec1)

(***************************************************************************)
(* C3: every read operation returns a value and never raises; a transport  *)
(* failure is swallowed into the operation's empty value.                  *)
(***************************************************************************)
C3_ReadsNeverRaise ==
    last.op \in ReadOps =>
        /\ last.exc = NoExc
        /\ last.faulted => last.ret = EmptyResult(last.op)

(***************************************************************************)
(* C4: load_json of a record whose stored content does not parse returns   *)
(* the empty mapping and does not raise, on either backend (stated for the *)
(* calls that meet no transport failure).                                  *)
(***************************************************************************)
C4_MalformedLoadsEmpty ==
    (last.op = "load_json" /\ ~last.faulted /\ Malformed(last.path))
        => (last.exc = NoExc /\ last.ret = RJson(EmptyDict))

(***************************************************************************)
(* C5: load_json of a record name under which nothing was ever stored      *)
(* returns the empty mapping and does not fail, on either backend.         *)
(***************************************************************************)
C5_NeverSavedLoadsEmpty ==
    (last.op = "load_json" /\ ~EverStored(last.path))
        => (last.exc = NoExc /\ last.ret = RJson(EmptyDict))

\* C5 for the calls that meet no transport failure: the absent record, and
\* the absent mcp-data folder, give the empty mapping.
C5_NeverSavedNoTransportFailure ==
    (last.op = "load_json" /\ ~EverStored(last.path) /\ ~last.faulted)
        => (last.exc = NoExc /\ last.ret = RJson(EmptyDict))

(***************************************************************************)
(* C6: a write operation that meets a failure raises it, and a write       *)
(* operation that returns normally has stored its content.                 *)
(***************************************************************************)
C6_WritesSurfaceFailures ==
    [][ last'.op \in WriteOps =>
          /\ last'.faulted => last'.exc # NoExc
          /\ last'.exc = NoExc =>
               LET p == last'.path
                   before ==
                       IF backend = "local"
                       THEN (IF p \in DOMAIN lfiles THEN lfiles[p] ELSE <<>>)
                       ELSE (IF last'.id \in 1..Len(objs) THEN objs[last'.id].content
                             ELSE <<>>)
                   expected ==
                       IF last'.op = "append_text" THEN before \o ContentArg(last')
                       ELSE ContentArg(last')
               IN  IF backend = "local"
                   THEN p \in DOMAIN lfiles' /\ lfiles'[p] = expected
                   ELSE /\ p \in DOMAIN fileCache' /\ fileCache'[p] = last'.id
                        /\ LiveFile(objs', last'.id)
                        /\ objs'[last'.id].content = expected ]_vars

\* C6 witness: a local write met a device error after part of the content
\* was written, and raised it.
C6_Witness ==
    /\ backend = "local" /\ last.op = "append_text" /\ last.faulted
    /\ last.exc = "OSError" /\ last.path \in DOMAIN lfiles
    /\ lfiles[last.path] # <<>>

(***************************************************************************)
(* C7: remote upsert.  A save_json or write_text whose path resolves to a  *)
(* file id issues one update call against that id and no create call; one  *)
(* whose path resolves to no file issues one create call with the file     *)
(* name under the resolved parent folder id, and caches path -> new id.    *)
(* (A transport failure ends the call before or at that request.)          *)
(***************************************************************************)
C7_Upsert ==
    [][ (backend = "drive" /\ last'.op \in {"save_json", "write_text"}) =>
          LET p == last'.path
              r == resolve_file_id(DNow(MaxCalls), p)
              f == resolve_folder_id(r, FolderOf(p))
              ups == CallsOf(last', "update")
              crs == CallsOf(last', "create")
          IN  IF r.id # NoId
              THEN /\ crs = <<>>
                   /\ Len(ups) <= 1
                   /\ ~last'.faulted => ups = <<Call("update", r.id, <<>>)>>
              ELSE /\ ups = <<>>
                   /\ Len(crs) <= 1
                   /\ (~last'.faulted /\ f.exc = NoExc) =>
                        crs = <<Call("create", f.id, FileOf(p))>>
                   /\ last'.exc = NoExc =>
                        /\ Len(objs') = Len(objs) + 1
                        /\ objs'[Len(objs')] = File(FileOf(p), f.id, ContentArg(last'))
                        /\ p \in DOMAIN fileCache' /\ fileCache'[p] = Len(objs') ]_vars

\* C7 witness: a write updated, with one request, the file an earlier write created.
C7_Witness ==
    /\ backend = "drive" /\ last.op = "write_text" /\ last.exc = NoExc
    /\ last.calls = <<Call("update", last.id, <<>>)>>
    /\ TruePath(objs, last.id) = last.path
    /\ objs[last.id].content = last.data

(***************************************************************************)
(* C8: a remote write to a path whose parent folder does not exist fails   *)
(* with a folder-not-found error, and leaves the drive and the file-id     *)
(* cache entry of the path as they were (stated for the calls that meet no *)
(* transport failure).                                                     *)
(***************************************************************************)
C8_NoFolderCreated ==
    [][ (/\ backend = "drive" /\ last'.op \in WriteOps /\ ~last'.faulted
         /\ ~FolderExists(objs, FolderOf(last'.path)))
        => (/\ last'.exc = "FileNotFoundError"
            /\ objs' = objs
            /\ last'.path \notin DOMAIN fileCache') ]_vars

NoRepeat(path) == \A i, j \in 1..Len(path) : path[i] = path[j] => i = j

\* C8 for the paths no segment of which repeats an earlier one.
C8_NoFolderCreatedDistinctSegments ==
    [][ (/\ backend = "drive" /\ last'.op \in WriteOps /\ ~last'.faulted
         /\ NoRepeat(last'.path)
         /\ ~FolderExists(objs, FolderOf(last'.path)))
        => (/\ last'.exc = "FileNotFoundError"
            /\ objs' = objs
            /\ last'.path \notin DOMAIN fileCache') ]_vars

ListsOf(l) == CallsOf(l, "list")

(***************************************************************************)
(* C9: _resolve_folder_id("a/b/c") with a and a/b there and c not fails    *)
(* with a folder-not-found error naming c and leaves a and a/b, and not    *)
(* a/b/c, in the folder-id cache; with a and a/b cached, no later call     *)
(* lists a or b again, and resolving a/b/c again issues one listing.       *)
(***************************************************************************)
C9_PrefixesCached ==
    [][ /\ (last'.op = "resolve_folder_id" /\ last'.path = <<A, B, C>> /\ ~last'.faulted) =>
            /\ last'.exc = "FileNotFoundError" /\ last'.missing = C
            /\ <<A>> \in DOMAIN folderCache' /\ folderCache'[<<A>>] = 1
            /\ <<A, B>> \in DOMAIN folderCache' /\ folderCache'[<<A, B>>] = 2
            /\ <<A, B, C>> \notin DOMAIN folderCache'
            /\ Len(ListsOf(last')) =
                 Cardinality({<<A>>, <<A, B>>, <<A, B, C>>} \ DOMAIN folderCache)
        /\ ({<<A>>, <<A, B>>} \subseteq DOMAIN folderCache /\ backend = "drive") =>
            /\ \A i \in 1..Len(last'.calls) :
                  last'.calls[i] \notin {Call("list", RootId, A), Call("list", 1, B)}
            /\ (last'.op = "resolve_folder_id" /\ last'.path = <<A, B>>) =>
                  last'.calls = <<>>
            /\ (last'.op = "resolve_folder_id" /\ last'.path = <<A, B, C>>
                /\ ~last'.faulted) => ListsOf(last') = <<Call("list", 2, C)>> ]_vars

\* C9 witness: a/b/c was resolved a second time: one listing, for c alone.
C9_Witness ==
    /\ last.op = "resolve_folder_id" /\ last.path = <<A, B, C>>
    /\ last.exc = "FileNotFoundError" /\ last.missing = C
    /\ last.calls = <<Call("list", 2, C)>>
    /\ DOMAIN folderCache = {<<A>>, <<A, B>>}

\* The file-id cache holds for p an id that has since been deleted, or
\* renamed away from p.
StaleEntry(p) ==
    /\ p \in DOMAIN fileCache
    /\ fileCache[p] \in 1..Len(objs)
    /\ ~objs[fileCache[p]].live \/ objs[fileCache[p]].name # FileOf(p)

(***************************************************************************)
(* C10: with a cached file id that another user has since deleted or       *)
(* renamed away, a read of the path gives the not-found result instead of  *)
(* failing, and a write creates a new object at the path (stated for the   *)
(* calls that meet no transport failure).                                  *)
(***************************************************************************)
C10_StaleEntryTolerated ==
    [][ (backend = "drive" /\ StaleEntry(last'.path) /\ ~last'.faulted) =>
          /\ last'.op \in ReadOps =>
                (last'.exc = NoExc /\ last'.ret = EmptyResult(last'.op))
          /\ last'.op \in {"save_json", "write_text"} =>
                (/\ last'.exc = NoExc /\ Len(objs') = Len(objs) + 1
                 /\ CallsOf(last', "create") # <<>>) ]_vars

(***************************************************************************)
(* C11: both identifier caches are empty at construction; no call removes  *)
(* a key from either cache, and the id a folder path is cached with never  *)
(* changes.                                                                *)
(***************************************************************************)
C11_CachesGrow ==
    /\ (fileCache = <<>> /\ folderCache = <<>>)
    /\ [][ /\ DOMAIN fileCache \subseteq DOMAIN fileCache'
           /\ DOMAIN folderCache \subseteq DOMAIN folderCache'
           /\ \A d \in DOMAIN folderCache : folderCache'[d] = folderCache[d] ]_vars

\* C11 witness: a read failed on a cached id whose file is gone, and both
\* caches still hold their entries.
C11_Witness ==
    /\ backend = "drive" /\ last.op = "read_text" /\ last.exc = "HttpError"
    /\ ~last.faulted /\ last.path \in DOMAIN fileCache
    /\ ~LiveFile(objs, fileCache[last.path])
    /\ FolderOf(last.path) \in DOMAIN folderCache

\* Nothing is stored at path p now.
PathAbsent(p) ==
    IF backend = "local" THEN p \notin DOMAIN lfiles /\ p \notin ldirs
    ELSE ~\E i \in 1..Len(objs) : objs[i].live /\ TruePath(objs, i) = p

\* append_text(p, c) and write_text(p, c), called in the present state, end
\* alike: the same store and caches, the same success or failure, and after
\* a success read_text(p) gives c.  Locally under every injected failure,
\* remotely without transport failure.
AppendLikeWrite(p, c) ==
    IF backend = "local"
    THEN \A fault \in LocalWriteFaults(c, {"mkdir", "open"}) :
            LET a == LocalStorage_append_text(LNow, p, c, fault)
                w == LocalStorage_write_text(LNow, p, c, fault)
            IN  /\ a = w
                /\ a.exc = NoExc => LocalStorage_read_text(a.fs, p, NoFault).ret = RText(c)
    ELSE LET a == GoogleDriveStorage_append_text(DNow(MaxCalls), p, c)
             w == GoogleDriveStorage_write_text(DNow(MaxCalls), p, c)
         IN  /\ a.objs = w.objs /\ a.fc = w.fc /\ a.dc = w.dc
             /\ a.exc = w.exc /\ a.ret = w.ret
             /\ a.exc = NoExc =>
                  GoogleDriveStorage_read_text(DSt(a.objs, a.fc, a.dc, MaxCalls), p).ret
                      = RText(c)

(***************************************************************************)
(* C12: for every path at which nothing is stored and every content,       *)
(* append_text has the outcome of write_text, on either backend.           *)
(***************************************************************************)
C12_AppendAbsentIsWrite ==
    \A p \in TextPaths, c \in Texts : PathAbsent(p) => AppendLikeWrite(p, c)

\* C12 where the file-id cache holds no id for the absent path (an id left
\* from a file deleted or renamed away since, or the id of a file elsewhere
\* that the path was resolved to).
C12_AppendAbsentIsWriteUncached ==
    \A p \in TextPaths, c \in Texts :
        (PathAbsent(p) /\ p \notin DOMAIN fileCache) => AppendLikeWrite(p, c)

\* The blob at p as the backend gives it: what read_text(p) returns in the
\* store (files, dirs) respectively (o, fc, dc) when nothing fails.
BlobAt(files, dirs, o, fc, dc, p) ==
    IF backend = "local" THEN LocalStorage_read_text(LFs(files, dirs), p, NoFault)
    ELSE LET r == GoogleDriveStorage_read_text(DSt(o, fc, dc, MaxCalls), p)
         IN  LOut(<<>>, r.exc, r.ret)

(***************************************************************************)
(* C13: a successful append_text(p, c) leaves the blob at p equal to what  *)
(* it was before (empty if there was none) followed by c, on either        *)
(* backend; so write_text(p, c0) then append_text(p, c1) is read back as   *)
(* c0 ++ c1.                                                               *)
(***************************************************************************)
C13_AppendConcatenates ==
    [][ (last'.op = "append_text" /\ last'.exc = NoExc) =>
          LET p == last'.path
              before == BlobAt(lfiles, ldirs, objs, fileCache, folderCache, p)
              after == BlobAt(lfiles', ldirs', objs', fileCache', folderCache', p)
          IN  /\ before.exc = NoExc /\ after.exc = NoExc
              /\ after.ret = RText((IF before.ret.k = "text" THEN before.ret.v ELSE <<>>)
                                     \o last'.data) ]_vars

\* C13 witness: on the drive, "x" was written, "yz" appended, and the read
\* returns "xyz".
C13_Witness ==
    /\ backend = "drive" /\ steps = 3 /\ last.op = "read_text" /\ last.exc = NoExc
    /\ last.ret = RText(Text1 \o Text2)
    /\ last.path \in DOMAIN fileCache /\ TruePath(objs, fileCache[last.path]) = last.path

RECURSIVE Concat(_)
Concat(seqs) == IF seqs = <<>> THEN <<>> ELSE Head(seqs) \o Concat(Tail(seqs))

\* What a process that resolves AppendPath afresh reads there.
AppendedBlob ==
    LET r == GoogleDriveStorage_read_text(DSt(objs, <<>>, <<>>, MaxCalls), AppendPath)
    IN  IF r.ret.k = "text" THEN r.ret.v ELSE <<>>

(***************************************************************************)
(* C14: remote append_text is a read followed by an upsert.  As long as no *)
(* append had another process upload between its read and its upsert, the *)
(* blob holds what it held at first followed by every appended piece, in   *)
(* order; when two appends interleave, a piece can be lost (the witness).  *)
(***************************************************************************)
C14_SingleWriterKeepsAll ==
    last.clean => AppendedBlob = prior.c \o Concat(last.appended)

\* C14 witness: two appends interleaved between read and upsert, both
\* returned normally, and the blob lacks one of the two pieces.
C14_Witness ==
    /\ ~last.clean /\ Len(last.appended) = 2
    /\ wr[1].pc = "done" /\ wr[2].pc = "done" /\ prior.ex
    /\ AppendedBlob = prior.c \o wr[2].piece

\* The name ends in the extension of the pattern "*.ext".
HasExt(name, pattern) ==
    LET nm == NameStr(name)
        ext == Tail(NameStr(pattern))
    IN  /\ Len(nm) >= Len(ext)
        /\ \A k \in 1..Len(ext) : nm[Len(nm) - Len(ext) + k] = ext[k]

\* How many children of dir, directly in it, are stored under the path q.
ChildCount(dir, q) ==
    IF backend = "local"
    THEN IF (q \in DOMAIN lfiles \/ q \in ldirs) /\ Len(q) = Len(dir) + 1
            /\ SubSeq(q, 1, Len(dir)) = dir
         THEN 1 ELSE 0
    ELSE Cardinality({i \in 1..Len(objs) :
            /\ objs[i].live /\ objs[i].parent # RootId
            /\ objs[objs[i].parent].kind = "folder" /\ objs[objs[i].parent].live
            /\ TruePath(objs, objs[i].parent) = dir
            /\ dir \o <<objs[i].name>> = q})

DirExists(dir) ==
    IF backend = "local" THEN dir \in ldirs ELSE FolderExists(objs, dir)

\* The paths a listing of dir can name.
ListedPaths(dir) ==
    {dir \o <<n>> : n \in LogNames \cup {Sub, Renamed, FMd}}

Occurrences(seq, q) == Cardinality({k \in 1..Len(seq) : seq[k] = q})

\* A completed list_files call that no failure disturbed.
Listed == last.op = "list_files" /\ last.exc = NoExc /\ ~last.faulted

ThreeDays ==
    /\ \A n \in {Day1, Day2, Day3} : ChildCount(<<Logs>>, <<Logs, n>>) = 1
    /\ \A n \in {FooMdBak, Renamed, FMd} : ChildCount(<<Logs>>, <<Logs, n>>) = 0

ListedThreeDays == Listed /\ last.path = <<Logs>> /\ last.data = StarMd /\ ThreeDays

(***************************************************************************)
(* C16, as stated: list_files("logs", "*.md") over files 2026-01-01.md,    *)
(* 2026-01-03.md and 2026-01-02.md returns the three bare names, newest    *)
(* first.                                                                  *)
(***************************************************************************)
C16_ReturnsBareNames ==
    ListedThreeDays => last.ret = RList(<< <<Day3>>, <<Day2>>, <<Day1>> >>)

(***************************************************************************)
(* C16, amended: list_files("logs", "*.md") over files 2026-01-01.md,      *)
(* 2026-01-03.md and 2026-01-02.md returns the three root-relative paths   *)
(* logs/2026-01-03.md, logs/2026-01-02.md, logs/2026-01-01.md, in that     *)
(* order.                                                                  *)
(***************************************************************************)
C16_ReturnsRootRelativePaths ==
    ListedThreeDays =>
        last.ret = RList(<< <<Logs, Day3>>, <<Logs, Day2>>, <<Logs, Day1>> >>)

\* C16 witness: the three files were created on the drive in the order
\* 01, 03, 02 and list_files("logs", "*.md") has returned.
C16_Witness ==
    /\ ListedThreeDays /\ backend = "drive" /\ Len(last.ret.v) = 3
    /\ objs[2].name = Day1 /\ objs[3].name = Day3 /\ objs[4].name = Day2

\* The directory of the last call is missing, or nothing in it matches.
NothingToList ==
    \/ ~DirExists(last.path)
    \/ \A q \in ListedPaths(last.path) :
          HasExt(FileOf(q), last.data) => ChildCount(last.path, q) = 0

(***************************************************************************)
(* C17: on either backend list_files on a directory that does not exist,   *)
(* or that holds no matching child, returns the empty sequence and does    *)
(* not fail.                                                               *)
(***************************************************************************)
C17_NothingToListIsEmpty ==
    (last.op = "list_files" /\ NothingToList) =>
        last.exc = NoExc /\ last.ret = RList(<<>>)

\* C17 with every request to the drive answered: the same, for the calls
\* that no transport failure disturbed.
C17_NothingToListNoTransportFailure ==
    (last.op = "list_files" /\ NothingToList /\ (backend = "drive" => ~last.faulted)) =>
        last.exc = NoExc /\ last.ret = RList(<<>>)

\* C17: a drive listing of a directory that holds only a .md.bak file came
\* back empty after a request that found children to look at.
C17_Reached ==
    /\ last.op = "list_files" /\ NothingToList /\ ~last.faulted /\ backend = "drive"
    /\ DirExists(last.path) /\ ChildCount(<<Logs>>, <<Logs, FooMdBak>>) = 1
    /\ last.ret = RList(<<>>)

\* The drive holds no folder at the parent of path.
MissingDirectory(path) == ~FolderExists(objs, FolderOf(path))

\* The parent folder is there and holds no child of that name.
MissingFile(path) ==
    /\ FolderExists(objs, FolderOf(path))
    /\ ~\E i \in 1..Len(objs) : objs[i].live /\ TruePath(objs, i) = path

\* A read on the drive that every request answered.
DriveRead(l) == backend = "drive" /\ l.op \in ReadOps /\ ~l.faulted

NotFound(l) == l.exc = NoExc /\ l.id = NoId /\ l.ret = EmptyResult(l.op)

(***************************************************************************)
(* C18: _resolve_file_id(path) gives none, and raises no folder error,     *)
(* both when the parent folder of path is missing and when the folder is   *)
(* there without a child of that name; so read_text gives none,            *)
(* file_exists false and load_json the empty mapping in both cases alike   *)
(* (stated for the calls that meet no transport failure).                  *)
(***************************************************************************)
C18_MissingLooksAlike ==
    [][ (DriveRead(last') /\ (MissingDirectory(last'.path) \/ MissingFile(last'.path))) =>
            NotFound(last') ]_vars

\* C18 for the paths that the file-id cache holds no id for, so that the
\* lookup runs.
C18_MissingLooksAlikeUncached ==
    [][ (/\ DriveRead(last') /\ last'.path \notin DOMAIN fileCache
         /\ (MissingDirectory(last'.path) \/ MissingFile(last'.path))) =>
            NotFound(last') ]_vars

\* C18: the second call, a read of a path in a missing folder, has come back
\* as not found, on a drive where a/b is there and holds no f.md.
C18_Reached ==
    /\ DriveRead(last) /\ NotFound(last) /\ last.op = "read_text" /\ steps = 2
    /\ MissingDirectory(last.path) /\ MissingFile(<<A, B, FMd>>)
    /\ fileCache = <<>>

\* The documents of the save_json calls under way or over.
RacingDocuments == {Present(Dumps(wr[w].data)) : w \in {v \in Writers : wr[v].pc # "idle"}}

\* Every save_json that began has returned or raised.
RaceOver == \A w \in Writers : wr[w].pc \in {"done", "failed"}

(***************************************************************************)
(* C19: two save_json calls on one record race on LocalStorage, neither    *)
(* interrupted.  At every point the record holds what it held before or    *)
(* the whole document of one of the two, never a partial or mixed one, and *)
(* when both are over it holds the whole document of one of them.          *)
(***************************************************************************)
C19_RaceKeepsOneWholeDocument ==
    (\A w \in Writers : wr[w].pc # "crashed") =>
        \A n \in RecordNames :
            /\ RecordNow(n) \in {prior} \cup RacingDocuments
            /\ RaceOver => RecordNow(n) \in RacingDocuments

\* C19 where the two calls do not overlap: one has not begun, or was over
\* before the other opened the temporary file.
C19_OneAfterTheOther ==
    (/\ \A w \in Writers : wr[w].pc # "crashed"
     /\ \E w \in Writers : wr[w].pc \in {"idle", "mkdir", "open"}) =>
        \A n \in RecordNames : RecordNow(n) \in {prior} \cup RacingDocuments

\* C19: both calls are over, one of them raised FileNotFoundError from the
\* rename, and the record holds the beginning of one document followed by
\* the rest of the other.
C19_MixedDocument ==
    /\ RaceOver /\ \E w \in Writers : wr[w].pc = "failed"
    /\ RecordNow(TasksJson).ex
    /\ RecordNow(TasksJson) \notin RacingDocuments
    /\ ~Loads(RecordNow(TasksJson).c).ok

\* The decisions in the stored record, and those it held at first.
StoredDecisions ==
    DecisionsOf(LocalStorage_load_json(LNow, DecisionsJson, NoFault).ret.v)
PriorDecisions == IF prior.ex THEN DecisionsOf(Loads(prior.c).val) ELSE <<>>

(***************************************************************************)
(* C20: add_decision on the file fallback loads the whole record, appends  *)
(* and saves it back.  When every call saved the record it had loaded      *)
(* unchanged by another writer (the calls ran one after the other), all    *)
(* the decisions recorded are in the stored record, in order and under     *)
(* different ids; when two calls race a decision can be lost (the          *)
(* witness).                                                               *)
(***************************************************************************)
C20_OneAfterTheOtherKeepsBoth ==
    (last.clean /\ ~last.faulted) =>
        /\ StoredDecisions = PriorDecisions \o [k \in 1..Len(last.added) |-> last.added[k].d]
        /\ \A j, k \in 1..Len(last.added) :
             last.added[j].d.items[1] = last.added[k].d.items[1] => j = k

\* C20 witness: two processes read the same decisions list, both calls
\* reported their decision as recorded, no call met a failure, and the stored
\* record holds the second decision without the first.
C20_Witness ==
    /\ ~last.faulted /\ ~last.clean /\ Len(last.added) = 2
    /\ \A w \in Writers : wr[w].pc = "idle"
    /\ last.added[1].w # last.added[2].w
    /\ last.added[1].read = last.added[2].read
    /\ StoredDecisions = PriorDecisions \o <<last.added[2].d>>
    /\ \A i \in 1..Len(StoredDecisions) : StoredDecisions[i] # last.added[1].d

\* A call through tools/helpers.py returns to its caller.
HelperReturns(w) == wr[w].pc = "return" /\ wr'[w].pc = "idle"

(***************************************************************************)
(* C22: once init_storage(b) ran, every get_backend(), and with it every   *)
(* helpers.load_json and save_json, uses the instance b, and get_backend   *)
(* constructs no LocalStorage.                                             *)
(***************************************************************************)
C22_OneBackendPerProcess ==
    [][ helpers.inited =>
          /\ helpers' = helpers
          /\ \A w \in Writers :
               HelperReturns(w) =>
                  (wr'[w].got = helpers.backend /\ last'.id = helpers.backend) ]_vars

\* C22 witness: get_backend had built a LocalStorage before init_storage was
\* given the drive backend, and a save_json after it went to the drive.
C22_Witness ==
    /\ helpers.inited /\ helpers.insts = <<"local", "drive">> /\ helpers.backend = 2
    /\ last.op = "save_json" /\ last.id = 2 /\ last.exc = NoExc
    /\ Len(objs) > Len(DriveWithData) /\ lfiles = <<>>

(***************************************************************************)
(* C23: with no backend initialised and several callers in their first     *)
(* get_backend() at once, get_backend constructs at most one LocalStorage  *)
(* and all callers receive the same instance.                              *)
(***************************************************************************)
C23_LazyInitOnce ==
    /\ Cardinality(helpers.lazy) <= 1
    /\ ~helpers.inited =>
         \A v, w \in Writers :
            (wr[v].got # NoBackend /\ wr[w].got # NoBackend) => wr[v].got = wr[w].got

\* C23 for a caller whose test of _backend still holds when it constructs,
\* no other caller being about to assign: nothing was constructed before.
C23_LazyInitOnceUnlessOverlapping ==
    [][ (\E w \in Writers :
            /\ wr[w].pc = "construct" /\ wr'[w].pc = "assign"
            /\ helpers.backend = NoBackend
            /\ \A v \in Writers \ {w} : wr[v].pc # "assign") =>
          helpers.lazy = {} ]_vars

\* C23: two callers found _backend unset, each constructed a LocalStorage,
\* and they returned with different instances.
C23_TwoInstances ==
    /\ ~helpers.inited /\ Cardinality(helpers.lazy) = 2
    /\ wr[1].got # NoBackend /\ wr[2].got # NoBackend /\ wr[1].got # wr[2].got

(***************************************************************************)
(* C21: call_tool lets no failure escape: whatever a handler raises, a     *)
(* failed storage write included, call_tool returns one text result, and   *)
(* the server goes on taking calls.                                        *)
(***************************************************************************)
C21_NoFailureEscapes ==
    last.op = "call_tool" => (last.exc = NoExc /\ last.ret.k = "text")

\* C21 witness: the first call came back as an error text, and the call
\* after it, an add_decision, was served and stored its decision.
C21_Witness ==
    /\ last.op = "call_tool" /\ last.errors = 1 /\ steps = 2
    /\ last.name = "add_decision" /\ last.ret = RText(<<Txt("Decision recorded")>>)
    /\ backend = "local" /\ RecordPath(DecisionsJson) \in DOMAIN lfiles

\* The not-found value of each read-side operation on blobs.
BlobNotFound(op) ==
    CASE op = "read_text" -> RNone
      [] op = "list_files" -> RList(<<>>)
      [] op = "file_exists" -> RBool(FALSE)

\* The constructor's own path checks went through.
ChecksWentThrough == last.at \notin {"exists", "root_exists"}

(***************************************************************************)
(* C24: LocalStorage construction succeeds whether or not the shared root  *)
(* exists and whether or not the missing data directory could be created   *)
(* (the mkdir failure is logged only); and on an instance whose shared     *)
(* root does not exist, read_text returns none, list_files the empty list  *)
(* and file_exists false, for every path, without raising.                 *)
(***************************************************************************)
C24_MissingRootDegrades ==
    /\ (last.op = "LocalStorage" /\ ChecksWentThrough)
         => /\ last.exc = NoExc /\ backend = "local"
            /\ last.inst.kind = "local" /\ Instance = last.inst
    /\ (backend = "local" /\ last.op \in {"read_text", "list_files", "file_exists"}
          /\ Instance.root \notin ldirs)
         => (last.exc = NoExc /\ last.ret = BlobNotFound(last.op))

\* C24 witness: the data directory could not be created, the instance
\* exists all the same, its shared root is missing, and a list_files on it
\* came back empty.
C24_Witness ==
    /\ backend = "local" /\ DataDir \notin ldirs /\ Instance.root \notin ldirs
    /\ last.op = "list_files" /\ last.ret = RList(<<>>) /\ last.exc = NoExc

\* Neither inline credentials nor a credentials file is configured.
NoCredentials(env) == env.creds_json = "" /\ env.creds_path = ""
\* No drive id is given and no shared drive of the expected name is found.
NoDrive(env, drives) == env.drive_id = "" /\ drives = <<>>

(***************************************************************************)
(* C25: GoogleDriveStorage() raises when no credentials are configured or  *)
(* when no drive id is given and no shared drive is found, and then no     *)
(* backend instance and no cache exists; every storage operation on a      *)
(* drive backend runs on an instance with a resolved drive id.             *)
(***************************************************************************)
C25_DriveConstructionFatal ==
    /\ (last.op = "GoogleDriveStorage"
          /\ (NoCredentials(last.env) \/ NoDrive(last.env, last.drives)))
         => /\ last.exc # NoExc /\ last.inst = NoInstance
            /\ backend = "none" /\ helpers = NotStarted
            /\ fileCache = <<>> /\ folderCache = <<>>
    /\ backend = "drive" => (Instance.kind = "drive" /\ Instance.drive_id # "")
    /\ (last.op \in {"read_text", "file_exists"} /\ last.inst.kind = "drive")
         => last.inst.drive_id # ""

\* C25 witness: with good credentials, no drive id and no shared drive to
\* be found, the constructor raised ValueError and nothing was constructed.
C25_Witness ==
    /\ last.op = "GoogleDriveStorage" /\ last.exc = "ValueError"
    /\ last.env.creds_json = "good" /\ NoDrive(last.env, last.drives) /\ last.ok
    /\ backend = "none" /\ helpers = NotStarted

\* The path a call of the constructed LocalStorage acted on.
ActedOn(l) == l.inst.root \o l.path

(***************************************************************************)
(* C26: a LocalStorage write_text(p, c) or append_text(p, c) that returns, *)
(* on a path whose parent directory does not exist, leaves every directory *)
(* on the way to p created and c stored: file_exists(p) is true and        *)
(* read_text(p) returns c.                                                 *)
(***************************************************************************)
C26_WritesCreateParents ==
    [][ (last'.op \in BootWrites /\ last'.exc = NoExc
           /\ FolderOf(ActedOn(last')) \notin ldirs)
          => LET p == ActedOn(last')
                 after == LFs(lfiles', ldirs')
             IN /\ Prefixes(FolderOf(p)) \subseteq ldirs'
                /\ LocalStorage_file_exists(after, p, NoFault).ret = RBool(TRUE)
                /\ LocalStorage_read_text(after, p, NoFault).ret = RText(Text2) ]_vars

\* C26 witness: an append_text below an explicit shared root of which no
\* level existed has created the root and both folders and stored the text.
C26_Witness ==
    /\ last.op = "append_text" /\ last.exc = NoExc /\ last.inst.root = Shared /\ steps = 2
    /\ Prefixes(Shared \o <<A, B>>) \subseteq ldirs
    /\ (Shared \o <<A, B, FMd>>) \in DOMAIN lfiles
    /\ lfiles[Shared \o <<A, B, FMd>>] = Text2
    /\ <<A, B>> \notin ldirs

\* The step repeats, successfully, the save_json or write_text that the
\* call before it performed successfully.
RepeatsLastWrite ==
    /\ last.op \in {"save_json", "write_text"} /\ last.exc = NoExc
    /\ last'.op = last.op /\ last'.path = last.path /\ last'.data = last.data
    /\ last'.exc = NoExc /\ steps' = steps + 1

\* The live files of the drive whose folder path and name spell path.
ObjectsAt(o, path) ==
    {i \in 1..Len(o) : o[i].kind = "file" /\ o[i].live /\ TruePath(o, i) = path}

(***************************************************************************)
(* C27: a save_json or write_text performed a second time in a row leaves  *)
(* the store as the first left it: the same files and directories locally; *)
(* on the drive the same objects and caches, the second call issuing no    *)
(* create and one update of the object the first call wrote, of which the  *)
(* path still has exactly one.                                             *)
(***************************************************************************)
C27_RepeatedWriteIsIdempotent ==
    [][ RepeatsLastWrite =>
          IF backend = "local"
          THEN lfiles' = lfiles /\ ldirs' = ldirs
          ELSE /\ objs' = objs /\ fileCache' = fileCache /\ folderCache' = folderCache
               /\ CallsOf(last', "create") = <<>>
               /\ last'.calls = <<Call("update", last.id, <<>>)>>
               /\ last'.id = last.id
               /\ ObjectsAt(objs', last.path) = {last.id} ]_vars

\* C27 with the count of objects at the path asked only where the path has
\* no repeated segment and the object the first call wrote still bears the
\* file's name.
C27_RepeatedWriteIsIdempotentInPlace ==
    [][ RepeatsLastWrite =>
          IF backend = "local"
          THEN lfiles' = lfiles /\ ldirs' = ldirs
          ELSE /\ objs' = objs /\ fileCache' = fileCache /\ folderCache' = folderCache
               /\ CallsOf(last', "create") = <<>>
               /\ last'.calls = <<Call("update", last.id, <<>>)>>
               /\ last'.id = last.id
               /\ (NoRepeat(last.path) /\ ~StaleEntry(last.path))
                    => ObjectsAt(objs', last.path) = {last.id} ]_vars

\* C27: a write_text was repeated and the drive was left as it was, with
\* one object, in the folder the path names.
C27_Reached ==
    /\ backend = "drive" /\ last.op = "write_text" /\ last.exc = NoExc /\ steps = 2
    /\ last.calls = <<Call("update", last.id, <<>>)>>
    /\ ObjectsAt(objs, last.path) = {last.id} /\ Len(objs) = 4

\* C27: a write_text to a/b/a/f.md was repeated, and the folder a/b/a does
\* not exist: the one object written twice is a/f.md.
C27_NoObjectAtThePath ==
    /\ backend = "drive" /\ last.op = "write_text" /\ last.exc = NoExc /\ steps = 2
    /\ last.calls = <<Call("update", last.id, <<>>)>>
    /\ last.path = <<A, B, A, FMd>> /\ ObjectsAt(objs, last.path) = {}
    /\ TruePath(objs, last.id) = <<A, FMd>>

\* The id of the live folder at dir.
FolderAt(dir) ==
    CHOOSE i \in 1..Len(objs) :
        objs[i].kind = "folder" /\ objs[i].live /\ TruePath(objs, i) = dir

\* The children the listing API delivers for the last call, page by page.
Delivered == ChildrenQuery(objs, FolderAt(last.path), SuffixOf(last.data))
\* The page requests of the last call.
PageRequests == SelectSeq(last.calls, LAMBDA c : c.api = "list" /\ c.name = <<>>)
PagesOf(n) == IF n = 0 THEN 1 ELSE (n + PageSize - 1) \div PageSize

(***************************************************************************)
(* C28: a remote list_files of an existing folder that meets no transport  *)
(* failure asks for page after page until the API gives no continuation    *)
(* token: it returns after as many requests as the children fill pages,    *)
(* its result holds the path of every delivered child whose name ends in   *)
(* the suffix, and the file-id cache holds directory/name -> id for every  *)
(* delivered child, in the result or not.                                  *)
(***************************************************************************)
C28_ListPagesToTheEnd ==
    (Listed /\ backend = "drive" /\ DirExists(last.path)) =>
        /\ Len(PageRequests) = PagesOf(Len(Delivered))
        /\ \A k \in 1..Len(Delivered) :
             LET i == Delivered[k]
                 q == last.path \o <<objs[i].name>>
             IN  /\ EndsWith(NameStr(objs[i].name), SuffixOf(last.data))
                      => \E n \in 1..Len(last.ret.v) : last.ret.v[n] = q
                 /\ q \in DOMAIN fileCache
                 /\ \E m \in 1..Len(Delivered) :
                      fileCache[q] = Delivered[m] /\ objs[Delivered[m]].name = objs[i].name

\* C28 witness: five children were delivered over three pages; four are in
\* the result, and foo.md.bak, which is not, is cached with the others.
C28_Witness ==
    /\ Listed /\ backend = "drive" /\ last.path = <<Logs>>
    /\ Len(Delivered) = 5 /\ Len(PageRequests) = 3 /\ Len(last.ret.v) = 4
    /\ <<Logs, FooMdBak>> \in DOMAIN fileCache
    /\ \A n \in 1..4 : last.ret.v[n] # <<Logs, FooMdBak>>

\* A completed remote list_files("logs", "*.md") over a folder that holds a
\* file foo.md.bak.
ListedWithBak ==
    /\ Listed /\ backend = "drive" /\ last.path = <<Logs>> /\ last.data = StarMd
    /\ ChildCount(<<Logs>>, <<Logs, FooMdBak>>) = 1

(***************************************************************************)
(* C29 as stated: remote list_files("logs", "*.md") over a folder holding  *)
(* foo.md.bak returns a sequence that includes the path of foo.md.bak.     *)
(***************************************************************************)
C29_ReturnsOverMatch ==
    ListedWithBak => \E n \in 1..Len(last.ret.v) : last.ret.v[n] = <<Logs, FooMdBak>>

(***************************************************************************)
(* C29 amended: the name-contains query of remote list_files("logs",       *)
(* "*.md") over-matches, so that foo.md.bak is delivered and cached, but   *)
(* the returned sequence holds only names that end in .md: the path of     *)
(* foo.md.bak is not in it.                                                *)
(***************************************************************************)
C29_OverMatchCachedNotReturned ==
    ListedWithBak =>
        /\ \E k \in 1..Len(Delivered) : objs[Delivered[k]].name = FooMdBak
        /\ <<Logs, FooMdBak>> \in DOMAIN fileCache
        /\ objs[fileCache[<<Logs, FooMdBak>>]].name = FooMdBak
        /\ \A n \in 1..Len(last.ret.v) : last.ret.v[n] # <<Logs, FooMdBak>>

\* C29 witness: logs holds foo.md.bak beside a dated file; the listing
\* returned the dated file only and cached both.
C29_Witness ==
    /\ ListedWithBak /\ steps = 1
    /\ last.ret = RList(<<(<<Logs, Day1>>)>>)
    /\ DOMAIN fileCache = {<<Logs, Day1>>, <<Logs, FooMdBak>>}

\* The bytes stored at the path of the last call, if any.
StoredAt(path) ==
    IF backend = "local"
    THEN IF path \in DOMAIN lfiles THEN Present(lfiles[path]) ELSE Absent
    ELSE IF ObjectsAt(objs, path) = {} THEN Absent
         ELSE Present(objs[CHOOSE i \in ObjectsAt(objs, path) : TRUE].content)

\* What read_text is to return for stored bytes: their UTF-8 text, or,
\* where that decode fails, their latin-1 text, or none if the retry failed.
DecodedOrRetried(l, bytes) ==
    IF Utf8Decode(bytes).ok
    THEN l.ret = RText(Utf8Decode(bytes).text) \/ (l.data = <<"read">> /\ l.ret = RNone)
    ELSE \/ l.ret = RText(Latin1Decode(bytes))
         \/ (l.data \in {<<"read">>, <<"reopen">>} /\ l.ret = RNone)

\* A read_text that met no transport failure.
TextRead == last.op = "read_text" /\ ~(backend = "drive" /\ last.faulted)

(***************************************************************************)
(* C30: on every backend read_text returns none for an absent path, the    *)
(* UTF-8 text of an existing blob, or, when that decode fails, the text a   *)
(* single retry with latin-1 gives (none only if the retry fails too), and *)
(* never raises on undecodable content.                                    *)
(***************************************************************************)
C30_DecodeFallbackEverywhere ==
    TextRead =>
        /\ last.exc = NoExc
        /\ IF StoredAt(last.path).ex THEN DecodedOrRetried(last, StoredAt(last.path).c)
           ELSE last.ret = RNone

\* C30 for LocalStorage alone.
C30_DecodeFallbackLocal ==
    (TextRead /\ backend = "local") =>
        /\ last.exc = NoExc
        /\ IF StoredAt(last.path).ex THEN DecodedOrRetried(last, StoredAt(last.path).c)
           ELSE last.ret = RNone

\* C30: LocalStorage has read latin-1 bytes that are not UTF-8 and returned
\* their latin-1 text.
C30_Reached ==
    /\ TextRead /\ backend = "local" /\ last.data = <<"none">>
    /\ StoredAt(last.path) = Present(<<Txt("c"), Raw("E9")>>)
    /\ last.ret = RText(<<Txt("c"), Txt("e-acute")>>)

\* C30: GoogleDriveStorage.read_text has raised UnicodeDecodeError on the
\* same bytes.
C30_DriveRaises ==
    /\ TextRead /\ backend = "drive" /\ last.exc = "UnicodeDecodeError"
    /\ StoredAt(last.path) = Present(<<Txt("c"), Raw("E9")>>)

\* The lookups by name among the requests of a call: the listing queries of
\* _resolve_folder_id and _resolve_file_id (a page request names no child).
Lookups(l) == SelectSeq(l.calls, LAMBDA c : c.api = "list" /\ c.name # <<>>)
FileOps == {"load_json", "read_text", "file_exists", "save_json", "write_text", "append_text"}
FolderOps == {"resolve_folder_id", "list_files"}

(***************************************************************************)
(* C31: a call on a path that the file-id cache holds resolves it without  *)
(* any listing query and works on the cached id (its download or update    *)
(* goes to that id, nothing is created, the entry stays); a call on a      *)
(* folder path that the folder-id cache holds resolves it without any      *)
(* listing query and gets the cached id.                                   *)
(***************************************************************************)
C31_CachedPathsAreNotLookedUp ==
    [][ /\ (backend = "drive" /\ last'.op \in FileOps /\ steps' = steps + 1
              /\ last'.path \in DOMAIN fileCache)
            => /\ Lookups(last') = <<>>
               /\ \A i \in 1..Len(last'.calls) :
                    /\ last'.calls[i].api \in {"get_media", "update"}
                    /\ last'.calls[i].id = fileCache[last'.path]
               /\ last'.path \in DOMAIN fileCache'
               /\ fileCache'[last'.path] = fileCache[last'.path]
        /\ (backend = "drive" /\ last'.op \in FolderOps /\ steps' = steps + 1
              /\ last'.path \in DOMAIN folderCache)
            => /\ Lookups(last') = <<>>
               /\ last'.op = "resolve_folder_id"
                    => (last'.calls = <<>> /\ last'.id = folderCache[last'.path])
               /\ folderCache' = folderCache ]_vars

\* C31 witness: a read_text of a path that an earlier write had cached went
\* straight to the download of the cached id.
C31_Witness ==
    /\ backend = "drive" /\ last.op = "read_text" /\ last.exc = NoExc /\ steps = 2
    /\ last.path \in DOMAIN fileCache
    /\ last.calls = <<Call("get_media", fileCache[last.path], <<>>)>>
    /\ last.ret = RText(objs[fileCache[last.path]].content)

\* The folder with id i is the live folder that lies at dir, walking from
\* the drive root.
IsFolderAt(i, dir) ==
    IF dir = <<>> THEN i = RootId
    ELSE /\ i \in 1..Len(objs) /\ objs[i].kind = "folder" /\ objs[i].live
         /\ TruePath(objs, i) = dir

(***************************************************************************)
(* C32: a _resolve_folder_id that returns, for any folder path, a path     *)
(* with a repeated segment included, returns the id of the folder that     *)
(* lies at the path; and every folder-id cache entry maps its prefix to    *)
(* the id of the folder that lies at that prefix.                          *)
(***************************************************************************)
C32_FolderCacheCorrect ==
    /\ (last.op = "resolve_folder_id" /\ last.exc = NoExc) => IsFolderAt(last.id, last.path)
    /\ \A d \in DOMAIN folderCache : IsFolderAt(folderCache[d], d)

\* C32 for the paths no segment of which repeats an earlier one.
C32_FolderCacheCorrectDistinctSegments ==
    /\ (last.op = "resolve_folder_id" /\ last.exc = NoExc /\ NoRepeat(last.path))
         => IsFolderAt(last.id, last.path)
    /\ \A d \in DOMAIN folderCache : NoRepeat(d) => IsFolderAt(folderCache[d], d)

\* C32: a/b/a exists and its resolution returned the id of a.
C32_WrongFolderReturned ==
    /\ last.op = "resolve_folder_id" /\ last.exc = NoExc /\ last.path = <<A, B, A>>
    /\ \E i \in 1..Len(objs) : IsFolderAt(i, <<A, B, A>>)
    /\ IsFolderAt(last.id, <<A>>)

\* C32: a/a/b does not exist and the cache maps it to the id of a/b.
C32_WrongCacheEntry ==
    /\ <<A, A, B>> \in DOMAIN folderCache /\ IsFolderAt(folderCache[<<A, A, B>>], <<A, B>>)
    /\ ~\E i \in 1..Len(objs) : IsFolderAt(i, <<A, A, B>>)

\* The record m is, before and after the step, the same: there or not, and
\* with the same content.
RecordKept(m) ==
    /\ (RecordPath(m) \in DOMAIN lfiles) = (RecordPath(m) \in DOMAIN lfiles')
    /\ RecordPath(m) \in DOMAIN lfiles => lfiles'[RecordPath(m)] = lfiles[RecordPath(m)]

\* After a successful save_json of n its temporary file is not there.
NoTempLeft(n) ==
    (last'.exc = NoExc /\ temp_path(RecordPath(n)) # RecordPath(n))
        => temp_path(RecordPath(n)) \notin DOMAIN lfiles'

(***************************************************************************)
(* C33: LocalStorage save_json(n, r) leaves every other record of the data *)
(* directory as it was, there or not and with its content, records that    *)
(* share n's stem and records named *.tmp included; and after a successful *)
(* save the temporary file is gone.                                        *)
(***************************************************************************)
C33_SaveChangesOnlyItsRecord ==
    [][ (last'.op = "save_json" /\ steps' = steps + 1) =>
          LET n == FileOf(last'.path)
          IN  /\ \A m \in FrameNames \ {n} : RecordKept(m)
              /\ NoTempLeft(n) ]_vars

\* C33 for the records other than the one named <stem of n>.tmp.
C33_SaveChangesOnlyItsRecordAndItsTmp ==
    [][ (last'.op = "save_json" /\ steps' = steps + 1) =>
          LET n == FileOf(last'.path)
          IN  /\ \A m \in FrameNames \ {n, WithSuffix(n, "tmp")} : RecordKept(m)
              /\ NoTempLeft(n) ]_vars

\* C33: a successful save_json("tasks.json") has removed the record
\* tasks.tmp that was stored beside it.
C33_TmpRecordLost ==
    /\ last.op = "save_json" /\ last.path = RecordPath(TasksJson) /\ last.exc = NoExc
    /\ steps = 1 /\ RecordPath(TasksTmp) \notin DOMAIN lfiles
    /\ RecordPath(TasksYaml) \in DOMAIN lfiles /\ RecordPath(NotesTmp) \in DOMAIN lfiles

(***************************************************************************)
(* One GoogleDriveStorage instance as the only writer of the drive         *)
(***************************************************************************)
\* Blob paths of the single writer: those of TextPaths, and a/f.md, the
\* file of the folder that "a/b/a" resolves to.
SinglePaths == TextPaths \cup {<<A, FMd>>}

InitSingle == InitDrive

\* save_json, write_text and append_text through the one instance.
SingleWrite ==
    /\ DriveReady
    /\ \E op \in WriteOps, p \in SinglePaths, c \in Texts, r \in Records, b \in Budgets :
         \/ /\ op = "save_json" /\ p = RecordPath(TasksJson) /\ c = Text1
            /\ \E out \in {GoogleDriveStorage_save_json(DNow(b), TasksJson, r)} :
                 DriveCall(op, p, r, out)
         \/ /\ op = "write_text" /\ r = Rec0
            /\ \E out \in {GoogleDriveStorage_write_text(DNow(b), p, c)} :
                 DriveCall(op, p, c, out)
         \/ /\ op = "append_text" /\ r = Rec0
            /\ \E out \in {GoogleDriveStorage_append_text(DNow(b), p, c)} :
                 DriveCall(op, p, c, out)

\* load_json, read_text and file_exists through the one instance.
SingleRead ==
    /\ DriveReady
    /\ \E op \in ReadOps, p \in SinglePaths, b \in Budgets :
         \/ /\ op = "load_json" /\ p = RecordPath(TasksJson)
            /\ \E out \in {GoogleDriveStorage_load_json(DNow(b), TasksJson)} :
                 DriveCall(op, p, <<>>, out)
         \/ /\ op = "read_text"
            /\ \E out \in {GoogleDriveStorage_read_text(DNow(b), p)} :
                 DriveCall(op, p, <<>>, out)
         \/ /\ op = "file_exists"
            /\ \E out \in {GoogleDriveStorage_file_exists(DNow(b), p)} :
                 DriveCall(op, p, <<>>, out)

\* list_files through the one instance.
SingleList ==
    /\ DriveReady
    /\ \E d \in {<<A>>, <<A, B>>, <<A, B, A>>}, b \in Budgets :
         \E out \in {GoogleDriveStorage_list_files(DNow(b), d, StarMd)} :
              DriveCall("list_files", d, StarMd, out)

NextSingle == SingleWrite \/ SingleRead \/ SingleList
SpecSingle == InitSingle /\ [][NextSingle]_vars

\* The live files of folder parent that are named name.
FilesNamed(parent, name) ==
    {i \in 1..Len(objs) : /\ objs[i].kind = "file" /\ objs[i].live
                          /\ objs[i].parent = parent /\ objs[i].name = name}

(***************************************************************************)
(* C34: with one GoogleDriveStorage instance as the only writer of the     *)
(* drive, whatever save_json, write_text, append_text, read and list calls *)
(* it made and whichever of them failed, no folder holds two live files of *)
(* one name, every file-id cache entry is the id of the one live file of   *)
(* the path's filename in its folder (the file at the path itself when no  *)
(* segment of the path repeats), and a write that returned left such an    *)
(* entry for its path.                                                     *)
(***************************************************************************)
C34_NoDuplicatesUnderSingleWriter ==
    /\ \A i \in 1..Len(objs) :
         (objs[i].kind = "file" /\ objs[i].live)
             => FilesNamed(objs[i].parent, objs[i].name) = {i}
    /\ \A p \in DOMAIN fileCache :
         /\ fileCache[p] \in 1..Len(objs)
         /\ FilesNamed(objs[fileCache[p]].parent, FileOf(p)) = {fileCache[p]}
         /\ NoRepeat(p) => TruePath(objs, fileCache[p]) = p
    /\ (last.op \in WriteOps /\ last.exc = NoExc) => last.path \in DOMAIN fileCache

\* C34 witness: after three calls of the one instance a folder holds a file
\* that two cached paths name, the last call was a write of one of them that
\* returned, and that folder holds no other file.
C34_Witness ==
    /\ steps = MaxSteps /\ last.op \in WriteOps /\ last.exc = NoExc
    /\ last.path = <<A, FMd>>
    /\ <<A, B, A, FMd>> \in DOMAIN fileCache
    /\ fileCache[<<A, B, A, FMd>>] = fileCache[<<A, FMd>>]
    /\ FilesNamed(1, FMd) = {fileCache[<<A, FMd>>]}

(***************************************************************************)
(* A caller that finds a path absent, writes it, and looks again           *)
(***************************************************************************)
\* "*.ext" for the extension of name.
StarOf(name) == <<"*", name[Len(name)]>>

\* The last call was a file_exists or read_text that reported its path absent.
ReportedAbsent ==
    /\ last.op \in {"file_exists", "read_text"}
    /\ last.exc = NoExc /\ last.ret = EmptyResult(last.op)
\* The last call was a write_text that returned.
WroteIt == last.op = "write_text" /\ last.exc = NoExc

InitRyw == Init

\* file_exists(p) or read_text(p), of any path, at any time.
RywProbe ==
    /\ steps < MaxSteps
    /\ \E op \in {"file_exists", "read_text"}, p \in SinglePaths :
         IF backend = "local"
         THEN \E fault \in LocalReadFaults :
              \E out \in {IF op = "file_exists" THEN LocalStorage_file_exists(LNow, p, fault)
                          ELSE LocalStorage_read_text(LNow, p, fault)} :
                   LocalCall(op, p, <<>>, fault, out)
         ELSE \E b \in Budgets :
              \E out \in {IF op = "file_exists" THEN GoogleDriveStorage_file_exists(DNow(b), p)
                          ELSE GoogleDriveStorage_read_text(DNow(b), p)} :
                   DriveCall(op, p, <<>>, out)

\* write_text(p, c) of the path the last call reported absent.
RywWrite ==
    /\ steps < MaxSteps /\ ReportedAbsent
    /\ \E c \in Texts :
         IF backend = "local"
         THEN \E fault \in LocalWriteFaults(c, {"mkdir", "open"}) :
              \E out \in {LocalStorage_write_text(LNow, last.path, c, fault)} :
                   LocalCall("write_text", last.path, c, fault, out)
         ELSE \E b \in Budgets :
              \E out \in {GoogleDriveStorage_write_text(DNow(b), last.path, c)} :
                   DriveCall("write_text", last.path, c, out)

\* list_files(directory of p, "*.ext") after the write_text of p returned.
RywList ==
    /\ steps < MaxSteps /\ WroteIt
    /\ \E d \in {FolderOf(last.path)}, g \in {StarOf(FileOf(last.path))} :
         IF backend = "local"
         THEN \E fault \in LocalReadFaults :
              \E out \in {LocalStorage_list_files(LNow, d, g, fault)} :
                   LocalCall("list_files", d, g, fault, out)
         ELSE \E b \in Budgets :
              \E out \in {GoogleDriveStorage_list_files(DNow(b), d, g)} :
                   DriveCall("list_files", d, g, out)

NextRyw == RywProbe \/ RywWrite \/ RywList
SpecRyw == InitRyw /\ [][NextRyw]_vars

(***************************************************************************)
(* C35: on either backend, when file_exists(p) or read_text(p) reported p  *)
(* absent and the write_text(p, c) that followed returned, the next call,  *)
(* if it meets no failure, finds what was written: file_exists(p) returns  *)
(* True, read_text(p) returns c, and list_files of p's directory with      *)
(* "*.ext" of p's extension has p in its result; none of them raises.      *)
(* (Under SpecRyw every write_text follows such a report of its path.)     *)
(***************************************************************************)
C35_ReadYourWrites ==
    [][ (WroteIt /\ steps' = steps + 1 /\ ~last'.faulted) =>
          /\ (last'.op = "file_exists" /\ last'.path = last.path)
                => last'.ret = RBool(TRUE)
          /\ (last'.op = "read_text" /\ last'.path = last.path)
                => last'.ret = RText(last.data)
          /\ (last'.op = "list_files" /\ last'.path = FolderOf(last.path))
                => \E k \in 1..Len(last'.ret.v) : last'.ret.v[k] = last.path ]_vars

\* C35 witness: the third call was a read_text of the path the first call
\* reported absent and the second wrote, and it returned the text written.
C35_Witness ==
    /\ steps = 3 /\ last.op = "read_text" /\ ~last.faulted
    /\ last.ret \in {RText(c) : c \in Texts}
    /\ IF backend = "local" THEN last.path \in DOMAIN lfiles
       ELSE last.path \in DOMAIN fileCache

(***************************************************************************)
(* The two backends over the same directory contents                       *)
(***************************************************************************)
\* Folder trees: a, a/b and mcp-data, without and with a/b/a.
PairFolders == {DriveWithData, DriveWithData \o <<Folder(A, 2)>>}
\* Files the directories may hold.
PairFiles == {<<A, B, FMd>>, <<A, B, Day1>>, <<A, B, TasksJson>>, <<A, FMd>>, <<A, B, A, Day2>>}
PairDirs == {<<A>>, <<A, B>>, <<A, B, A>>}
\* "*.md", and a literal filename.
PairPatterns == {StarMd, FMd}

\* The id of the folder that lies at dir in the folder tree o.
FolderIn(o, dir) ==
    CHOOSE i \in 1..Len(o) : o[i].kind = "folder" /\ TruePath(o, i) = dir

\* The same contents in both stores: every folder of the tree is a
\* directory, every file a drive object of its folder and a local file.
InitPair ==
    /\ backend = "drive"
    /\ \E tree \in PairFolders :
       \E files \in SUBSET {f \in PairFiles : FolderExists(tree, FolderOf(f))} :
       \E q \in {SeqOf(files)} :
            /\ objs = tree \o [k \in 1..Len(q) |->
                                 File(FileOf(q[k]), FolderIn(tree, FolderOf(q[k])), Text1)]
            /\ ldirs = {<<>>} \cup {TruePath(tree, i) : i \in 1..Len(tree)}
            /\ lfiles = [f \in files |-> Text1]
    /\ fileCache = <<>> /\ folderCache = <<>>
    /\ last = NoCall /\ steps = 0
    /\ wr = [w \in Writers |-> WIdle]
    /\ rd = RIdle
    /\ prior = Absent
    /\ saved = NoSaved
    /\ helpers = Started("drive")

\* list_files(directory, pattern) on each backend: last keeps the call of
\* GoogleDriveStorage, rd.ret what LocalStorage returned.
PairList ==
    /\ steps < MaxSteps
    /\ \E d \in PairDirs, g \in PairPatterns, b \in {0, MaxCalls} :
       \E out \in {GoogleDriveStorage_list_files(DNow(b), d, g)} :
       \E lo \in {LocalStorage_list_files(LNow, d, g, NoFault)} :
            /\ objs' = out.objs
            /\ fileCache' = out.fc
            /\ folderCache' = out.dc
            /\ last' = [op |-> "list_files", path |-> d, data |-> g, exc |-> out.exc,
                        missing |-> out.missing, ret |-> out.ret, calls |-> out.calls,
                        faulted |-> out.faulted, id |-> out.id]
            /\ rd' = [RIdle EXCEPT !.pc = "listed", !.ret = lo.ret]
            /\ lfiles' = lo.fs.files
            /\ ldirs' = lo.fs.dirs
    /\ steps' = steps + 1
    /\ UNCHANGED <<backend, helpers, wr, prior, saved>>

NextPair == PairList
SpecPair == InitPair /\ [][NextPair]_vars

\* Both backends listed the directory and neither met a failure.
ListedOnBoth == Listed /\ rd.pc = "listed"

(***************************************************************************)
(* C36: for the same directory contents, every directory path and every    *)
(* pattern, "*.ext" or a literal filename, LocalStorage.list_files and     *)
(* GoogleDriveStorage.list_files return the same sequence of relative      *)
(* paths.                                                                  *)
(***************************************************************************)
C36_ListingsAgree == ListedOnBoth => last.ret = rd.ret

\* C36 for the patterns that start with "*" and the directory paths no
\* segment of which repeats an earlier one.
C36_ListingsAgreeStarPatterns ==
    (ListedOnBoth /\ StartsWith(NameStr(last.data), <<"*">>) /\ NoRepeat(last.path))
        => last.ret = rd.ret

\* C36: list_files("a/b", "f.md") over a/b holding f.md and other files
\* returns a/b/f.md alone on LocalStorage and every child of a/b on
\* GoogleDriveStorage.
C36_LiteralPatternDiffers ==
    /\ ListedOnBoth /\ last.path = <<A, B>> /\ last.data = FMd
    /\ rd.ret = RList(<< <<A, B, FMd>> >>)
    /\ Len(last.ret.v) > 1
    /\ \E k \in 1..Len(last.ret.v) : last.ret.v[k] = <<A, B, TasksJson>>

\* C36: with "*.md" the two differ only for a directory path with a repeated
\* segment, which the drive backend resolves to another folder (C32).
C36_RepeatedSegmentDiffers ==
    /\ ListedOnBoth /\ last.path = <<A, B, A>> /\ last.data = StarMd
    /\ last.ret # rd.ret

\* The operations that read.
Reads == ReadOps \cup {"list_files"}

(***************************************************************************)
(* C37: load_json, read_text, list_files and file_exists, whether they     *)
(* return or fail, leave every file and directory of the local backend as  *)
(* it was; on the drive backend they issue no create and no update request *)
(* and leave every object as it was, and change nothing but the file-id    *)
(* and folder-id caches.                                                   *)
(***************************************************************************)
C37_ReadsChangeNoContent ==
    [][ (last'.op \in Reads /\ steps' = steps + 1) =>
          /\ lfiles' = lfiles /\ ldirs' = ldirs
          /\ objs' = objs
          /\ \A k \in 1..Len(last'.calls) : last'.calls[k].api \in {"list", "get_media"}
          /\ backend = "local" => (fileCache' = fileCache /\ folderCache' = folderCache)
          /\ UNCHANGED <<backend, helpers>> ]_vars

\* C37 witness: the first call on a drive that holds a/b was a read of a
\* path below it; it found no file, issued listing queries only, and left
\* the two folders in the folder-id cache.
C37_Witness ==
    /\ backend = "drive" /\ steps = 1 /\ last.op \in Reads /\ last.exc = NoExc
    /\ last.path = <<A, B, FMd>> /\ last.ret = EmptyResult(last.op)
    /\ Len(last.calls) = 3
    /\ DOMAIN folderCache = {<<A>>, <<A, B>>} /\ fileCache = <<>>
    /\ Len(objs) >= 2

\* d.get("id", "")
IdOf(d) == DictGet(d, "id", StrV("")).s
(***************************************************************************)
(* C38: while the add_decision calls on the file fallback ran one after    *)
(* the other and met no failure, the stored decisions are those stored at  *)
(* the start, unchanged, followed by one decision for each call, in the    *)
(* order of the calls; the id of each is TECH-(k+1), zero-padded to three  *)
(* digits, for k the largest number of a "TECH-<number>" id stored when    *)
(* the call began (0 if there was none); and no two stored decisions have  *)
(* the same id.                                                            *)
(***************************************************************************)
C38_DecisionIdsStayUnique ==
    (last.clean /\ ~last.faulted) =>
        \A sd \in {StoredDecisions}, pd \in {PriorDecisions} :
            /\ Len(sd) = Len(pd) + Len(last.added)
            /\ SubSeq(sd, 1, Len(pd)) = pd
            /\ \A k \in 1..Len(last.added) :
                 \A before \in {SubSeq(sd, 1, Len(pd) + k - 1)} :
                    /\ sd[Len(pd) + k] = last.added[k].d
                    /\ last.added[k].read = before
                    /\ \E n \in 1..Len(TechIds) :
                         /\ IdOf(sd[Len(pd) + k]) = TechIds[n]
                         /\ \A i \in 1..Len(before) : TechNum(IdOf(before[i])) < n
                         /\ n > 1 => \E i \in 1..Len(before) : TechNum(IdOf(before[i])) = n - 1
            /\ \A i, j \in 1..Len(sd) : IdOf(sd[i]) = IdOf(sd[j]) => i = j

\* C38 witness: two calls ran one after the other on the record that held
\* TECH-5, TECH-x and TECH-001, and the record now holds those three
\* followed by TECH-006 and TECH-007.
C38_Witness ==
    /\ last.clean /\ ~last.faulted /\ Len(last.added) = 2
    /\ Len(StoredDecisions) = 5
    /\ [i \in 1..5 |-> IdOf(StoredDecisions[i])]
         = <<"TECH-5", "TECH-x", "TECH-001", "TECH-006", "TECH-007">>

====
